---- MODULE Spec2Model ----
(***************************************************************************)
(* Model of go-ghpr.                                                       *)
(*                                                                         *)
(* Spec        one invocation of PR.waitForChecks (pkg/ghpr/pr.go), the    *)
(*             loop behind WaitForPRChecks and WaitForMergeChecks: the     *)
(*             required checks are the argument of the call, every tick    *)
(*             the forge returns an error or an arbitrary ordered list of  *)
(*             status entries, the context may be cancelled at any moment. *)
(* SpecBackoff successive waits on one PR with one BackoffStrategy value,  *)
(*             for every strategy: the backoff intervals.                  *)
(* SpecRepo    Clone and Close calls on one Repo (pkg/ghpr/repo.go).       *)
(* SpecFlow    GithubPR.Create (the full flow) and PR.Create / PR.Merge.   *)
(***************************************************************************)
EXTENDS Integers, Sequences, FiniteSets, TLC

(* ---------------------------- bounds ----------------------------------- *)
MaxChecks   == 2    \* longest required-checks list passed to the wait
MaxStatuses == 2    \* longest status list one ListStatuses call returns
MaxTicks    == 3    \* most fetches of one wait the model follows
MaxPoll     == 3    \* longest MinPollTime / MaxPollTime, in time units
MaxCalls    == 2    \* most waits made one after the other on one PR
MaxDirs     == 2    \* most temporary directories one Repo creates
MaxOps      == 3    \* most calls made on one PR
MaxName     == 4    \* longest repository name passed to makeGithubPR
MaxPushes   == 2    \* most calls of Push made on one Change

(* ---------------------------- domains ---------------------------------- *)
\* names of checks / contexts of status entries
Names == {"A", "B"}

\* Check.CheckType is a free string; "other" stands for every string that is
\* neither "status" nor "action"
CheckTypes == {"status", "action", "other"}

\* RepoStatus.GetState(): the forge's states (anything else behaves as pending)
States == {"success", "failure", "error", "pending"}

Check == [Name : Names, CheckType : CheckTypes]

RepoStatus == [Context : Names, State : States]

\* PollBackoffFactor, in halves: 1/2, 1, 3/2, 2
Factors == {1, 2, 3, 4}

\* BackoffStrategy values; the poll times are positive durations
BackoffStrategy ==
    [MinPollTime : 1..MaxPoll, MaxPollTime : 1..MaxPoll, PollBackoffFactor : Factors]

\* "no sleep yet"
NoInterval == [call |-> 0, attempt |-> 0, limit |-> 0, dur |-> 0]

\* all sequences over S of length 0..n
SeqUpTo(S, n) == UNION {[1..k -> S] : k \in 0..n}

(* ---------------------------- state ------------------------------------ *)
VARIABLES
    checks,      \* []Check argument of waitForChecks
    pc,          \* position of the call: "start", "fetch", "sleep", "done"
    targetStatuses, \* names of the status checks, in the order of checks
    statuses,    \* list returned by the ListStatuses call of this iteration
    fetchErr,    \* TRUE iff the latest ListStatuses call returned an error
    hist,        \* evaluation of every tick so far, oldest first: "success",
                 \* "pending", "failed" or "fetcherr"
    result,      \* error returned by waitForChecks (meaningful at "done")
    cancelled,   \* ctx.Done() is closed
    timer,       \* the channel of time.After(b.Duration()) is ready
    attempt,     \* attempt counter of the backoff b
    fetches,     \* number of ListStatuses calls made
    sleeps,      \* number of times the select (backoff sleep) was entered
    doneFrom,    \* pc from which the call returned ("none" while running)
    strategy,    \* BackoffStrategy argument of the waits
    interval,    \* the latest backoff sleep: wait, attempt, limit, duration
    prevInterval,\* the backoff sleep before the latest
    calls        \* number of waits started on the PR

pollVars == <<checks, pc, targetStatuses, statuses, fetchErr, hist, result,
              cancelled, timer, attempt, fetches, sleeps, doneFrom, strategy,
              interval, prevInterval, calls>>

VARIABLES
    dirs,        \* temporary directories of the Repo that exist under the root
    made,        \* number of temporary directories the Repo has created
    rFilesystem, \* Repo.filesystem: 0 is nil, n is the chroot at directory n
    rRepo,       \* Repo.repo: "nil" or "repository"
    cloneCalls,  \* number of calls of the clone capability (goGit.Clone)
    lastOp       \* the latest call on the Repo and what it returned

repoVars == <<dirs, made, rFilesystem, rRepo, cloneCalls, lastOp>>

VARIABLES
    gpc,         \* position of GithubPR.Create
    gErr,        \* error GithubPR.Create returns
    gSteps,      \* the steps GithubPR.Create has invoked, in order
    gMergeable,  \* Mergeable of the pull request MergePR fetched
    gMergeCalls, \* calls of PullRequests.Merge made by GithubPR.MergePR
    gMergeSHA,   \* GithubPR.mergeSHA
    prNumber,    \* PR.Number
    prSha,       \* PR.PRSha
    prMergedSha, \* PR.MergedSha
    prMergeable, \* Mergeable of the pull request PR.Merge fetched
    prMergeCalls,\* calls of PullRequests.Merge made by PR.Merge
    prLast,      \* the latest call on the PR and the error it returned
    prOps        \* number of calls made on the PR

flowVars == <<gpc, gErr, gSteps, gMergeable, gMergeCalls, gMergeSHA, prNumber,
              prSha, prMergedSha, prMergeable, prMergeCalls, prLast, prOps>>

VARIABLES
    repoName,    \* argument of makeGithubPR: a string, as its characters
    mkDirs,      \* temporary directories makeGithubPR created under fs
    mkResult     \* what makeGithubPR returned

makeVars == <<repoName, mkDirs, mkResult>>

VARIABLES
    cBranch,     \* Change.Branch
    lHead,       \* branch HEAD of the cloned repository points to
    lRefs,       \* refs/heads of the cloned repository: commit per branch, 0 for none
    lCommits,    \* number of commits of the cloned repository
    rRefs,       \* refs/heads of the remote
    rCommits,    \* commits the remote holds
    pushCalls,   \* calls of Change.Push made
    chLast       \* the latest call on the Change and what it returned

pushVars == <<cBranch, lHead, lRefs, lCommits, rRefs, rCommits, pushCalls, chLast>>

VARIABLES
    prRepo,      \* PR.change.repo: its Owner and Name
    prApiCalls,  \* calls the PR made on its GitHub client
    prUrl,       \* what the latest PR.URL returned
    prAnswer     \* number and SHA GitHub answered the latest call with

urlVars == <<prRepo, prApiCalls, prUrl, prAnswer>>

VARIABLES
    fetchCause   \* why the latest failed ListStatuses failed

fetchVars == <<fetchCause>>

VARIABLES
    wpc,         \* position of waitForStatusWithTimeout
    wResult,     \* what waitForStatusWithTimeout returned
    wFetches,    \* fetches its goroutine had made when it returned
    bgpc,        \* position of the goroutine running GithubPR.waitForStatus
    bgFetches,   \* ListStatuses calls the goroutine has made
    bgStatuses,  \* the list the goroutine fetched last
    chanC        \* the buffered channel c

bgVars == <<wpc, wResult, wFetches, bgpc, bgFetches, bgStatuses, chanC>>

VARIABLES
    spc,         \* position of PR.waitForStatus
    sResult,     \* what PR.waitForStatus returned
    sFrom,       \* where it returned from
    sStatuses,   \* the list it fetched last
    sFetches,    \* ListStatuses calls it has made
    sCancelled   \* whether the caller's context is done

stVars == <<spc, sResult, sFrom, sStatuses, sFetches, sCancelled>>

\* the state of the parts modelled after the waits, the Repo and the flow
auxVars == <<makeVars, pushVars, urlVars, fetchVars, bgVars, stVars>>

\* auxVars without the variables of makeGithubPR, of Change.Push, of PR.URL,
\* of waitForStatusWithTimeout, of PR.waitForStatus
exceptMake == <<pushVars, urlVars, fetchVars, bgVars, stVars>>

exceptPush == <<makeVars, urlVars, fetchVars, bgVars, stVars>>

exceptUrl == <<makeVars, pushVars, fetchVars, bgVars, stVars>>

exceptBg == <<makeVars, pushVars, urlVars, fetchVars, stVars>>

exceptSt == <<makeVars, pushVars, urlVars, fetchVars, bgVars>>

vars == <<pollVars, repoVars, flowVars, auxVars>>

\* evaluation of the latest tick ("none" before the first)
outcome == IF hist = <<>> THEN "none" ELSE hist[Len(hist)]

(* ---------------------------- errors ----------------------------------- *)
\* An error value is modelled by the pieces of its message; nil is <<>>.
Nil == <<>>

\* pr.go:139
ErrUnknownType == <<"Unknown check type, must be one of 'action' or 'status'">>

\* pr.go:144
ErrUnsupportedType == <<"Unsupported check type, check not yet implemented">>

\* pr.go:178
ErrTimedOut == <<"timed out waiting for status">>

\* pr.go:168
ErrCheckFailed(status) ==
    <<"target status check (", status, ") is in a failed state, aborting">>

\* pr.go:153; the wrapped cause is the forge client's error
ErrFetch == <<"failed listing statuses while waiting for ", "shaRef", ": ", "cause">>

(* ---------------------------- pure helpers ----------------------------- *)
\* pr.go:109-121.  First entry whose context is targetStatus, in list order.
RECURSIVE statusSuccessfulFrom(_, _, _)
statusSuccessfulFrom(targetStatus, sts, i) ==
    IF i > Len(sts)
    THEN [state |-> "", err |-> TRUE]
    ELSE IF sts[i].Context # targetStatus
         THEN statusSuccessfulFrom(targetStatus, sts, i + 1)
         ELSE [state |-> sts[i].State, err |-> FALSE]

\* mutant: the last matching entry wins
RECURSIVE statusSuccessfulLast(_, _, _)
statusSuccessfulLast(targetStatus, sts, i) ==
    IF i < 1
    THEN [state |-> "", err |-> TRUE]
    ELSE IF sts[i].Context # targetStatus
         THEN statusSuccessfulLast(targetStatus, sts, i - 1)
         ELSE [state |-> sts[i].State, err |-> FALSE]

statusSuccessful_Last(targetStatus, sts) ==
    statusSuccessfulLast(targetStatus, sts, Len(sts))

statusSuccessful(targetStatus, sts) ==
    statusSuccessfulFrom(targetStatus, sts, 1)

\* pr.go:131-145.  The partition loop with its early return, then the
\* targetActions test.  err is Nil when polling may begin.
RECURSIVE partitionFrom(_, _, _, _)
partitionFrom(cs, i, tStatuses, tActions) ==
    IF i > Len(cs)
    THEN [err |-> IF Len(tActions) > 0 THEN ErrUnsupportedType ELSE Nil,
          targetStatuses |-> tStatuses]
    ELSE IF cs[i].CheckType = "status"
         THEN partitionFrom(cs, i + 1, Append(tStatuses, cs[i].Name), tActions)
         ELSE IF cs[i].CheckType = "action"
              THEN partitionFrom(cs, i + 1, tStatuses, Append(tActions, cs[i].Name))
              ELSE [err |-> ErrUnknownType, targetStatuses |-> tStatuses]

\* mutant: action checks are polled like status checks
RECURSIVE partitionActionAsStatus(_, _, _)
partitionActionAsStatus(cs, i, tStatuses) ==
    IF i > Len(cs)
    THEN [err |-> Nil, targetStatuses |-> tStatuses]
    ELSE IF cs[i].CheckType \in {"status", "action"}
         THEN partitionActionAsStatus(cs, i + 1, Append(tStatuses, cs[i].Name))
         ELSE [err |-> ErrUnknownType, targetStatuses |-> tStatuses]

partition_ActionAsStatus(cs) == partitionActionAsStatus(cs, 1, <<>>)

\* mutant: the first action check returns the unsupported-type error from
\* inside the loop
RECURSIVE partitionStopAtAction(_, _, _)
partitionStopAtAction(cs, i, tStatuses) ==
    IF i > Len(cs)
    THEN [err |-> Nil, targetStatuses |-> tStatuses]
    ELSE IF cs[i].CheckType = "status"
         THEN partitionStopAtAction(cs, i + 1, Append(tStatuses, cs[i].Name))
         ELSE IF cs[i].CheckType = "action"
              THEN [err |-> ErrUnsupportedType, targetStatuses |-> tStatuses]
              ELSE [err |-> ErrUnknownType, targetStatuses |-> tStatuses]

partition_StopAtAction(cs) == partitionStopAtAction(cs, 1, <<>>)

partition(cs) == partitionFrom(cs, 1, <<>>, <<>>)

\* pr.go:156-170.  The loop over targetStatuses: counts successes, breaks at
\* the first check without an entry, returns at the first failed one.
RECURSIVE evalFrom(_, _, _, _)
evalFrom(tStatuses, sts, i, statusesSuccessful) ==
    IF i > Len(tStatuses)
    THEN [failed |-> FALSE, name |-> "", n |-> statusesSuccessful]
    ELSE LET r == statusSuccessful(tStatuses[i], sts) IN
         IF r.err
         THEN [failed |-> FALSE, name |-> "", n |-> statusesSuccessful]
         ELSE IF r.state = "success"
              THEN evalFrom(tStatuses, sts, i + 1, statusesSuccessful + 1)
              ELSE IF r.state = "failure" \/ r.state = "error"
                   THEN [failed |-> TRUE, name |-> tStatuses[i],
                         n |-> statusesSuccessful]
                   ELSE evalFrom(tStatuses, sts, i + 1, statusesSuccessful)

\* mutant: the success count is never compared with the number of checks
evaluate_NoCount(tStatuses, sts) ==
    LET e == evalFrom(tStatuses, sts, 1, 0) IN
    IF e.failed
    THEN [kind |-> "failed", name |-> e.name]
    ELSE [kind |-> "success", name |-> ""]

\* mutant: the comparison with the number of checks is off by one
evaluate_OffByOne(tStatuses, sts) ==
    LET e == evalFrom(tStatuses, sts, 1, 0) IN
    IF e.failed
    THEN [kind |-> "failed", name |-> e.name]
    ELSE IF e.n + 1 >= Len(tStatuses)
         THEN [kind |-> "success", name |-> ""]
         ELSE [kind |-> "pending", name |-> ""]

\* mutant: a failure is reported under the name of the first required check
evaluate_NamesFirst(tStatuses, sts) ==
    LET e == evalFrom(tStatuses, sts, 1, 0) IN
    IF e.failed
    THEN [kind |-> "failed", name |-> tStatuses[1]]
    ELSE IF e.n = Len(tStatuses)
         THEN [kind |-> "success", name |-> ""]
         ELSE [kind |-> "pending", name |-> ""]

\* mutant: success needs at least one successful check
evaluate_NeedsOne(tStatuses, sts) ==
    LET e == evalFrom(tStatuses, sts, 1, 0) IN
    IF e.failed
    THEN [kind |-> "failed", name |-> e.name]
    ELSE IF e.n = Len(tStatuses) /\ e.n > 0
         THEN [kind |-> "success", name |-> ""]
         ELSE [kind |-> "pending", name |-> ""]

\* pr.go:156-174.  Evaluation of one tick on a fetched list.
evaluate(tStatuses, sts) ==
    LET e == evalFrom(tStatuses, sts, 1, 0) IN
    IF e.failed
    THEN [kind |-> "failed", name |-> e.name]
    ELSE IF e.n = Len(tStatuses)
         THEN [kind |-> "success", name |-> ""]
         ELSE [kind |-> "pending", name |-> ""]

(* ---------------------------- backoff ---------------------------------- *)
\* mutant: the Min field of the backoff is left unset
newBackoff_NoMin(backoffStrategy) ==
    [Min    |-> 0,
     Max    |-> backoffStrategy.MaxPollTime,
     Factor |-> backoffStrategy.PollBackoffFactor,
     Jitter |-> TRUE]

\* pr.go:124-129.  The backoff of one wait, built from the strategy.
newBackoff(backoffStrategy) ==
    [Min    |-> backoffStrategy.MinPollTime,
     Max    |-> backoffStrategy.MaxPollTime,
     Factor |-> backoffStrategy.PollBackoffFactor,
     Jitter |-> TRUE]

RECURSIVE Pow(_, _)
Pow(x, n) == IF n = 0 THEN 1 ELSE x * Pow(x, n - 1)

Clamp(d, lo, hi) == IF d < lo THEN lo ELSE IF d > hi THEN hi ELSE d

\* The interval of attempt n before jitter: Min grown n times by Factor
\* (halves, truncated), kept within Min..Max; Max when Min >= Max.
IntervalLimit(b, n) ==
    IF b.Min >= b.Max
    THEN b.Max
    ELSE Clamp((b.Min * Pow(b.Factor, n)) \div Pow(2, n), b.Min, b.Max)

\* The intervals b.Duration() can return at attempt n: with jitter any
\* duration between Min and the grown interval, kept within Min..Max.
Durations(b, n) ==
    IF b.Min >= b.Max
    THEN {b.Max}
    ELSE LET durf == (b.Min * Pow(b.Factor, n)) \div Pow(2, n)
             band == IF b.Jitter
                     THEN (IF durf >= b.Min THEN b.Min..durf ELSE durf..b.Min)
                     ELSE {durf}
         IN {Clamp(d, b.Min, b.Max) : d \in band}

(* ---------------------------- initial state ---------------------------- *)
\* A wait has just been called: nothing fetched, nothing slept.
PollFresh ==
    /\ pc = "start"
    /\ targetStatuses = <<>>
    /\ statuses = <<>>
    /\ fetchErr = FALSE
    /\ hist = <<>>
    /\ result = Nil
    /\ cancelled = FALSE
    /\ timer = FALSE
    /\ attempt = 0
    /\ fetches = 0
    /\ sleeps = 0
    /\ doneFrom = "none"
    /\ interval = NoInterval
    /\ prevInterval = NoInterval
    /\ calls = 1

\* repo.go:78-86.  newRepo: no temporary filesystem, no repository.
RepoFresh ==
    /\ dirs = {}
    /\ made = 0
    /\ rFilesystem = 0
    /\ rRepo = "nil"
    /\ cloneCalls = 0
    /\ lastOp = [op |-> "newRepo", err |-> "nil", step |-> "none", calls |-> 0,
                 ret |-> "none", prevOp |-> "none", prevErr |-> "nil"]

\* part_003:111-119 and pr.go:102-107.  A GithubPR on which Create is
\* called, and a PR just made by newPR.
FlowFresh ==
    /\ gpc = "Clone"
    /\ gErr = "nil"
    /\ gSteps = <<>>
    /\ gMergeable = "none"
    /\ gMergeCalls = 0
    /\ gMergeSHA = ""
    /\ prNumber = 0
    /\ prSha = ""
    /\ prMergedSha = ""
    /\ prMergeable = "none"
    /\ prMergeCalls = 0
    /\ prLast = [op |-> "newPR", err |-> "nil"]
    /\ prOps = 0

\* (*GithubPR)(nil)
NilGithubPR ==
    [nil |-> TRUE, owner |-> <<>>, repo |-> <<>>, filesystem |-> 0, path |-> 0,
     gitHubClient |-> FALSE]

\* makeGithubPR has not been called
MakeFresh ==
    /\ mkDirs = 0
    /\ mkResult = [called |-> FALSE, g |-> NilGithubPR, err |-> "nil"]

\* part_001:20-27.  A Change on a clone with one commit
PushFresh ==
    /\ cBranch = "foo"
    /\ lHead = "master"
    /\ lRefs = [b \in {"master", "foo"} |-> IF b = "master" THEN 1 ELSE 0]
    /\ lCommits = 1
    /\ rRefs = [b \in {"master", "foo"} |-> 0]
    /\ rCommits = {}
    /\ pushCalls = 0
    /\ chLast = [op |-> "NewChange", err |-> "nil", made |-> 0, before |-> {},
                 prevErr |-> "nil", checkout |-> "none", updates |-> 0,
                 on |-> "none", pushes |-> 0]

\* a call that GitHub answered with an error, or no call
NoAnswer == [number |-> 0, sha |-> ""]

\* pr.go:102-107.  No call made on the PR yet
UrlFresh ==
    /\ prApiCalls = 0
    /\ prUrl = [called |-> FALSE, url |-> "", err |-> "nil"]
    /\ prAnswer = NoAnswer

\* no ListStatuses call has failed
FetchFresh == fetchCause = "none"

\* part_003:252-257.  waitForStatusWithTimeout has started its goroutine
BgFresh ==
    /\ wpc = "select"
    /\ wResult = "none"
    /\ wFetches = 0
    /\ bgpc = "fetch"
    /\ bgFetches = 0
    /\ bgStatuses = <<>>
    /\ chanC = <<>>

\* part_004:108-115.  PR.waitForStatus is entered
StFresh ==
    /\ spc = "fetch"
    /\ sResult = "none"
    /\ sFrom = "none"
    /\ sStatuses = <<>>
    /\ sFetches = 0
    /\ sCancelled = FALSE

AuxFresh ==
    /\ repoName = <<>>
    /\ MakeFresh
    /\ PushFresh
    /\ prRepo = [Owner |-> "test", Name |-> "user"]
    /\ UrlFresh
    /\ FetchFresh
    /\ BgFresh
    /\ StFresh

\* the strategy of the waits of Spec: a constant interval
FixedStrategy == [MinPollTime |-> 1, MaxPollTime |-> 1, PollBackoffFactor |-> 2]

\* waitForChecks has been called with some list of checks; b is fresh.
Init ==
    /\ checks \in SeqUpTo(Check, MaxChecks)
    /\ strategy = FixedStrategy
    /\ PollFresh
    /\ RepoFresh
    /\ FlowFresh
    /\ AuxFresh

\* the one required check of the waits of SpecBackoff
OneCheck == <<[Name |-> "A", CheckType |-> "status"]>>

\* WaitForPRChecks has been called with one status check and any strategy.
InitBackoff ==
    /\ checks = OneCheck
    /\ strategy \in BackoffStrategy
    /\ PollFresh
    /\ RepoFresh
    /\ FlowFresh
    /\ AuxFresh

(* ---------------------------- actions ---------------------------------- *)
\* mutant of Begin: the backoff lives in the PR and is kept between waits
Begin_KeepBackoff ==
    /\ pc = "start"
    /\ LET p == partition(checks) IN
       /\ targetStatuses' = p.targetStatuses
       /\ IF p.err # Nil
          THEN /\ pc' = "done"
               /\ result' = p.err
               /\ doneFrom' = "start"
          ELSE /\ pc' = "fetch"
               /\ UNCHANGED <<result, doneFrom>>
    /\ UNCHANGED <<checks, statuses, fetchErr, hist, cancelled, timer,
                   fetches, sleeps, attempt>>
    /\ UNCHANGED <<strategy, interval, prevInterval, calls, repoVars, flowVars, auxVars>>

\* mutant of Begin: the loop sleeps before its first fetch
Begin_SleepFirst ==
    /\ pc = "start"
    /\ LET p == partition(checks) IN
       /\ targetStatuses' = p.targetStatuses
       /\ IF p.err # Nil
          THEN /\ pc' = "done"
               /\ result' = p.err
               /\ doneFrom' = "start"
               /\ UNCHANGED <<timer, sleeps>>
          ELSE /\ pc' = "sleep"
               /\ timer' = FALSE
               /\ sleeps' = sleeps + 1
               /\ UNCHANGED <<result, doneFrom>>
    /\ attempt' = 0
    /\ UNCHANGED <<checks, statuses, fetchErr, hist, cancelled, fetches>>
    /\ UNCHANGED <<strategy, interval, prevInterval, calls, repoVars, flowVars, auxVars>>

\* pr.go:124-145.  Build the backoff, partition the checks; return the
\* type errors before any polling.
Begin ==
    /\ pc = "start"
    /\ LET p == partition(checks) IN
       /\ targetStatuses' = p.targetStatuses
       /\ IF p.err # Nil
          THEN /\ pc' = "done"
               /\ result' = p.err
               /\ doneFrom' = "start"
          ELSE /\ pc' = "fetch"
               /\ UNCHANGED <<result, doneFrom>>
    /\ attempt' = 0
    /\ UNCHANGED <<checks, statuses, fetchErr, hist, cancelled, timer,
                   fetches, sleeps>>
    /\ UNCHANGED <<strategy, interval, prevInterval, calls, repoVars, flowVars, auxVars>>

\* mutant of TickError: the fetch error is swallowed and the loop sleeps
TickError_Swallow ==
    /\ pc = "fetch"
    /\ fetches' = fetches + 1
    /\ fetchErr' = TRUE
    /\ statuses' = <<>>
    /\ hist' = Append(hist, "fetcherr")
    /\ pc' = "sleep"
    /\ timer' = FALSE
    /\ attempt' = attempt + 1
    /\ sleeps' = sleeps + 1
    /\ UNCHANGED <<checks, targetStatuses, cancelled, result, doneFrom>>
    /\ UNCHANGED <<strategy, interval, prevInterval, calls, repoVars, flowVars, auxVars>>

\* pr.go:148-154.  ListStatuses returns an error: the wait returns it.
\* The call is made with ctx (pr.go:148): it fails for a reason of the
\* transport or, once ctx is cancelled, because the request is aborted.
TickError ==
    /\ pc = "fetch"
    /\ fetches' = fetches + 1
    /\ fetchErr' = TRUE
    /\ fetchCause' \in {"transport"} \cup (IF cancelled THEN {"context"} ELSE {})
    /\ statuses' = <<>>
    /\ hist' = Append(hist, "fetcherr")
    /\ pc' = "done"
    /\ result' = ErrFetch
    /\ doneFrom' = "fetch"
    /\ UNCHANGED <<checks, targetStatuses, cancelled, timer, attempt, sleeps>>
    /\ UNCHANGED <<strategy, interval, prevInterval, calls, repoVars, flowVars>>
    /\ UNCHANGED <<makeVars, pushVars, urlVars, bgVars, stVars>>

\* mutant of TickWith: the select is entered before the success test
TickWith_SleepOnSuccess(sts) ==
    /\ pc = "fetch"
    /\ fetches' = fetches + 1
    /\ fetchErr' = FALSE
    /\ statuses' = sts
    /\ LET e == evaluate(targetStatuses, sts) IN
       /\ hist' = Append(hist, e.kind)
       /\ IF e.kind = "failed"
          THEN /\ pc' = "done"
               /\ result' = ErrCheckFailed(e.name)
               /\ doneFrom' = "fetch"
               /\ UNCHANGED <<timer, attempt, sleeps>>
          ELSE /\ timer' = FALSE
               /\ attempt' = attempt + 1
               /\ sleeps' = sleeps + 1
               /\ IF e.kind = "success"
                  THEN /\ pc' = "done"
                       /\ result' = Nil
                       /\ doneFrom' = "fetch"
                  ELSE /\ pc' = "sleep"
                       /\ UNCHANGED <<result, doneFrom>>
    /\ UNCHANGED <<checks, targetStatuses, cancelled>>
    /\ UNCHANGED <<strategy, interval, prevInterval, calls, repoVars, flowVars, auxVars>>

\* mutant of TickWith: the backoff is reset after its second interval
TickWith_ResetBackoff(sts) ==
    /\ pc = "fetch"
    /\ fetches' = fetches + 1
    /\ fetchErr' = FALSE
    /\ statuses' = sts
    /\ LET e == evaluate(targetStatuses, sts) IN
       /\ hist' = Append(hist, e.kind)
       /\ IF e.kind = "failed"
          THEN /\ pc' = "done"
               /\ result' = ErrCheckFailed(e.name)
               /\ doneFrom' = "fetch"
               /\ UNCHANGED <<timer, attempt, sleeps, interval, prevInterval>>
          ELSE IF e.kind = "success"
               THEN /\ pc' = "done"
                    /\ result' = Nil
                    /\ doneFrom' = "fetch"
                    /\ UNCHANGED <<timer, attempt, sleeps, interval, prevInterval>>
               ELSE /\ pc' = "sleep"
                    /\ timer' = FALSE
                    /\ attempt' = IF attempt >= 1 THEN 0 ELSE attempt + 1
                    /\ sleeps' = sleeps + 1
                    /\ UNCHANGED <<result, doneFrom>>
                    /\ LET b == newBackoff(strategy) IN
                       \E d \in Durations(b, attempt) :
                           /\ interval' = [call |-> calls, attempt |-> attempt,
                                           limit |-> IntervalLimit(b, attempt),
                                           dur |-> d]
                           /\ prevInterval' = interval
    /\ UNCHANGED <<checks, targetStatuses, cancelled, strategy, calls,
                   repoVars, flowVars, auxVars>>

\* mutant of TickWith: from the second tick on the list evaluated is not the
\* one just fetched
TickWith_StaleList(sts) ==
    /\ pc = "fetch"
    /\ fetches' = fetches + 1
    /\ fetchErr' = FALSE
    /\ statuses' = sts
    /\ LET e == evaluate(targetStatuses, IF attempt = 0 THEN sts ELSE <<>>) IN
       /\ hist' = Append(hist, e.kind)
       /\ IF e.kind = "failed"
          THEN /\ pc' = "done"
               /\ result' = ErrCheckFailed(e.name)
               /\ doneFrom' = "fetch"
               /\ UNCHANGED <<timer, attempt, sleeps>>
          ELSE IF e.kind = "success"
               THEN /\ pc' = "done"
                    /\ result' = Nil
                    /\ doneFrom' = "fetch"
                    /\ UNCHANGED <<timer, attempt, sleeps>>
               ELSE /\ pc' = "sleep"
                    /\ timer' = FALSE
                    /\ attempt' = attempt + 1
                    /\ sleeps' = sleeps + 1
                    /\ UNCHANGED <<result, doneFrom>>
       /\ IF e.kind = "pending"
          THEN LET b == newBackoff(strategy) IN
               \E d \in Durations(b, attempt) :
                   /\ interval' = [call |-> calls, attempt |-> attempt,
                                   limit |-> IntervalLimit(b, attempt), dur |-> d]
                   /\ prevInterval' = interval
          ELSE UNCHANGED <<interval, prevInterval>>
    /\ UNCHANGED <<checks, targetStatuses, cancelled, strategy, calls,
                   repoVars, flowVars, auxVars>>

\* pr.go:148-180.  ListStatuses returns a list: evaluate it; return on a
\* failed check or on all successful, else enter the select with a new
\* time.After(b.Duration()).
TickWith(sts) ==
    /\ pc = "fetch"
    /\ fetches' = fetches + 1
    /\ fetchErr' = FALSE
    /\ statuses' = sts
    /\ LET e == evaluate(targetStatuses, sts) IN
       /\ hist' = Append(hist, e.kind)
       /\ IF e.kind = "failed"
          THEN /\ pc' = "done"
               /\ result' = ErrCheckFailed(e.name)
               /\ doneFrom' = "fetch"
               /\ UNCHANGED <<timer, attempt, sleeps>>
          ELSE IF e.kind = "success"
               THEN /\ pc' = "done"
                    /\ result' = Nil
                    /\ doneFrom' = "fetch"
                    /\ UNCHANGED <<timer, attempt, sleeps>>
               ELSE /\ pc' = "sleep"
                    /\ timer' = FALSE
                    /\ attempt' = attempt + 1
                    /\ sleeps' = sleeps + 1
                    /\ UNCHANGED <<result, doneFrom>>
       /\ IF e.kind = "pending"
          THEN LET b == newBackoff(strategy) IN
               \E d \in Durations(b, attempt) :
                   /\ interval' = [call |-> calls, attempt |-> attempt,
                                   limit |-> IntervalLimit(b, attempt), dur |-> d]
                   /\ prevInterval' = interval
          ELSE UNCHANGED <<interval, prevInterval>>
    /\ UNCHANGED <<checks, targetStatuses, cancelled, strategy, calls,
                   repoVars, flowVars, auxVars>>

Tick == \E sts \in SeqUpTo(RepoStatus, MaxStatuses) : TickWith(sts)

\* the caller's context is cancelled or its deadline passes (any moment of
\* the call)
Cancel ==
    /\ pc # "done"
    /\ ~cancelled
    /\ cancelled' = TRUE
    /\ UNCHANGED <<checks, pc, targetStatuses, statuses, fetchErr, hist,
                   result, timer, attempt, fetches, sleeps, doneFrom>>
    /\ UNCHANGED <<strategy, interval, prevInterval, calls, repoVars, flowVars, auxVars>>

\* the backoff interval elapses while the wait is suspended in the select
TimerFires ==
    /\ pc = "sleep"
    /\ ~timer
    /\ timer' = TRUE
    /\ UNCHANGED <<checks, pc, targetStatuses, statuses, fetchErr, hist,
                   result, cancelled, attempt, fetches, sleeps, doneFrom>>
    /\ UNCHANGED <<strategy, interval, prevInterval, calls, repoVars, flowVars, auxVars>>

\* mutant of SelectDone: the cancellation is noticed but the loop goes on
SelectDone_Continue ==
    /\ pc = "sleep"
    /\ cancelled
    /\ fetches < MaxTicks
    /\ pc' = "fetch"
    /\ statuses' = <<>>
    /\ UNCHANGED <<checks, targetStatuses, fetchErr, hist, result,
                   cancelled, timer, attempt, fetches, sleeps, doneFrom>>
    /\ UNCHANGED <<strategy, interval, prevInterval, calls, repoVars, flowVars, auxVars>>

\* mutant of SelectDone: the cancellation is reported as a fetch failure
SelectDone_AsFetchError ==
    /\ pc = "sleep"
    /\ cancelled
    /\ pc' = "done"
    /\ result' = ErrFetch
    /\ doneFrom' = "sleep"
    /\ UNCHANGED <<checks, targetStatuses, statuses, fetchErr, hist,
                   cancelled, timer, attempt, fetches, sleeps>>
    /\ UNCHANGED <<strategy, interval, prevInterval, calls, repoVars, flowVars, auxVars>>

\* mutant of SelectDone: the cancellation ends the wait without an error
SelectDone_ReturnsNil ==
    /\ pc = "sleep"
    /\ cancelled
    /\ pc' = "done"
    /\ result' = Nil
    /\ doneFrom' = "sleep"
    /\ UNCHANGED <<checks, targetStatuses, statuses, fetchErr, hist,
                   cancelled, timer, attempt, fetches, sleeps>>
    /\ UNCHANGED <<strategy, interval, prevInterval, calls, repoVars, flowVars, auxVars>>

\* mutant of SelectDone: the cancellation is noticed and the select is entered
\* again with a new timer
SelectDone_Resleep ==
    /\ pc = "sleep"
    /\ cancelled
    /\ timer' = FALSE
    /\ UNCHANGED <<checks, pc, targetStatuses, statuses, fetchErr, hist, result,
                   cancelled, attempt, fetches, sleeps, doneFrom>>
    /\ UNCHANGED <<strategy, interval, prevInterval, calls, repoVars, flowVars, auxVars>>

\* pr.go:177-178.  The select takes the ctx.Done() case.
SelectDone ==
    /\ pc = "sleep"
    /\ cancelled
    /\ pc' = "done"
    /\ result' = ErrTimedOut
    /\ doneFrom' = "sleep"
    /\ UNCHANGED <<checks, targetStatuses, statuses, fetchErr, hist,
                   cancelled, timer, attempt, fetches, sleeps>>
    /\ UNCHANGED <<strategy, interval, prevInterval, calls, repoVars, flowVars, auxVars>>

\* pr.go:179.  The select takes the time.After case: next iteration, whose
\* statuses is a new variable of the loop body.
SelectTimer ==
    /\ pc = "sleep"
    /\ timer
    /\ fetches < MaxTicks
    /\ pc' = "fetch"
    /\ statuses' = <<>>
    /\ UNCHANGED <<checks, targetStatuses, fetchErr, hist, result,
                   cancelled, timer, attempt, fetches, sleeps, doneFrom>>
    /\ UNCHANGED <<strategy, interval, prevInterval, calls, repoVars, flowVars, auxVars>>

\* the lists the forge returns in SpecBackoff: at most one entry, of the
\* required check
OneCheckLists ==
    {<<>>} \cup {<<[Context |-> "A", State |-> st]>> : st \in States}

TickOne == \E sts \in OneCheckLists : TickWith(sts)

\* pr.go:82-90.  The wait has returned and the caller starts the next wait
\* on the same PR (WaitForMergeChecks after WaitForPRChecks) with the same
\* strategy value, and the same or a new context.
NextWait ==
    /\ pc = "done"
    /\ calls < MaxCalls
    /\ calls' = calls + 1
    /\ pc' = "start"
    /\ targetStatuses' = <<>>
    /\ statuses' = <<>>
    /\ fetchErr' = FALSE
    /\ hist' = <<>>
    /\ result' = Nil
    /\ cancelled' \in {FALSE, cancelled}
    /\ timer' = FALSE
    /\ fetches' = 0
    /\ sleeps' = 0
    /\ doneFrom' = "none"
    /\ UNCHANGED <<checks, attempt, strategy, interval, prevInterval,
                   repoVars, flowVars, auxVars>>

Next ==
    \/ Begin
    \/ TickError
    \/ Tick
    \/ Cancel
    \/ TimerFires
    \/ SelectDone
    \/ SelectTimer

Spec == Init /\ [][Next]_vars

\* Spec with the scheduling the liveness of a wait rests on: the call
\* starts, every ListStatuses call returns, the context is cancelled at some
\* moment, and a select whose ctx.Done() case is ready again and again takes
\* it at some moment (Go chooses at random among the ready cases).
SpecLive ==
    /\ Init
    /\ [][Next]_vars
    /\ WF_vars(Begin)
    /\ WF_vars(Tick \/ TickError)
    /\ WF_vars(Cancel)
    /\ SF_vars(SelectDone)

NextBackoff ==
    \/ Begin
    \/ TickError
    \/ TickOne
    \/ Cancel
    \/ TimerFires
    \/ SelectDone
    \/ SelectTimer
    \/ NextWait

SpecBackoff == InitBackoff /\ [][NextBackoff]_vars

(* ---------------------------- Repo -------------------------------------- *)
\* the steps of Repo.Clone that can fail ("none": all succeed)
CloneSteps == {"none", "TempDir", "Chroot", "ChrootGit", "Clone"}

\* what the clone capability returns beside an error: goGit.Clone returns a
\* (*git.Repository, error) pair and Repo.Clone stores the first whatever
\* the second is
ReposOnError == {"nil", "repository"}

\* repo.go:40, 45, 50, 63
CloneError(step) ==
    CASE step = "none"      -> "nil"
      [] step = "TempDir"   -> "failed to create temporary directory"
      [] step = "Chroot"    -> "failed to change directory to tempDir"
      [] step = "ChrootGit" -> "failed to change directory to .git"
      [] step = "Clone"     -> "failed to clone remote repository"

\* repo.go:73
ErrCleanup == "failed to clean up temporary directory"

\* the call op returned err; it failed at step and called the clone
\* capability n times, which returned the repository ret
Returned(op, err, step, n, ret) ==
    [op |-> op, err |-> err, step |-> step, calls |-> n, ret |-> ret,
     prevOp |-> lastOp.op, prevErr |-> lastOp.err]

\* mutant of RepoCloneWith: the error of the clone capability is dropped
RepoCloneWith_SwallowCloneError(fail, ret) ==
    /\ lastOp.err # "panic"
    /\ IF fail = "TempDir"
       THEN /\ lastOp' = Returned("Clone", CloneError(fail), fail, 0, "none")
            /\ UNCHANGED <<dirs, made, rFilesystem, rRepo, cloneCalls>>
       ELSE /\ made < MaxDirs
            /\ made' = made + 1
            /\ dirs' = dirs \cup {made + 1}
            /\ rFilesystem' = IF fail = "Chroot" THEN 0 ELSE made + 1
            /\ IF fail \in {"Chroot", "ChrootGit"}
               THEN /\ lastOp' = Returned("Clone", CloneError(fail), fail, 0, "none")
                    /\ UNCHANGED <<rRepo, cloneCalls>>
               ELSE /\ cloneCalls' = cloneCalls + 1
                    /\ rRepo' = IF fail = "Clone" THEN ret ELSE "repository"
                    /\ lastOp' = Returned("Clone", "nil", fail, 1, rRepo')
    /\ UNCHANGED <<pollVars, flowVars, auxVars>>

\* repo.go:33-67.  Repo.Clone: make a temporary directory under the root,
\* chroot the Repo's filesystem into it, chroot .git, call the clone
\* capability once and store what it returns; the first failing step
\* returns its error.
RepoCloneWith(fail, ret) ==
    /\ lastOp.err # "panic"
    /\ IF fail = "TempDir"
       THEN /\ lastOp' = Returned("Clone", CloneError(fail), fail, 0, "none")
            /\ UNCHANGED <<dirs, made, rFilesystem, rRepo, cloneCalls>>
       ELSE /\ made < MaxDirs
            /\ made' = made + 1
            /\ dirs' = dirs \cup {made + 1}
            /\ rFilesystem' = IF fail = "Chroot" THEN 0 ELSE made + 1
            /\ IF fail \in {"Chroot", "ChrootGit"}
               THEN /\ lastOp' = Returned("Clone", CloneError(fail), fail, 0, "none")
                    /\ UNCHANGED <<rRepo, cloneCalls>>
               ELSE /\ cloneCalls' = cloneCalls + 1
                    /\ rRepo' = IF fail = "Clone" THEN ret ELSE "repository"
                    /\ lastOp' = Returned("Clone", CloneError(fail), fail, 1, rRepo')
    /\ UNCHANGED <<pollVars, flowVars, auxVars>>

RepoClone == \E fail \in CloneSteps, ret \in ReposOnError : RepoCloneWith(fail, ret)

\* mutant of RepoCloseWith: only the contents of .git are removed
RepoCloseWith_KeepsDir(removed) ==
    /\ lastOp.err # "panic"
    /\ IF rFilesystem = 0
       THEN lastOp' = Returned("Close", "panic", "RemoveAll", 0, "none")
       ELSE IF removed
            THEN lastOp' = Returned("Close", "nil", "none", 0, "none")
            ELSE lastOp' = Returned("Close", ErrCleanup, "RemoveAll", 0, "none")
    /\ UNCHANGED <<dirs, made, rFilesystem, rRepo, cloneCalls, pollVars, flowVars, auxVars>>

\* repo.go:70-76.  Repo.Close: remove the directory the Repo's filesystem is
\* rooted at; a failed removal is returned and leaves the directory.  With
\* no filesystem (nil) the removal dereferences nil and the call panics.
RepoCloseWith(removed) ==
    /\ lastOp.err # "panic"
    /\ IF rFilesystem = 0
       THEN /\ lastOp' = Returned("Close", "panic", "RemoveAll", 0, "none")
            /\ UNCHANGED dirs
       ELSE IF removed
            THEN /\ dirs' = dirs \ {rFilesystem}
                 /\ lastOp' = Returned("Close", "nil", "none", 0, "none")
            ELSE /\ lastOp' = Returned("Close", ErrCleanup, "RemoveAll", 0, "none")
                 /\ UNCHANGED dirs
    /\ UNCHANGED <<made, rFilesystem, rRepo, cloneCalls, pollVars, flowVars, auxVars>>

RepoClose == \E removed \in BOOLEAN : RepoCloseWith(removed)

\* a Repo made by newRepo; the other objects are not used
InitRepo ==
    /\ checks = <<>>
    /\ strategy = FixedStrategy
    /\ PollFresh
    /\ RepoFresh
    /\ FlowFresh
    /\ AuxFresh

NextRepo ==
    \/ RepoClone
    \/ RepoClose

SpecRepo == InitRepo /\ [][NextRepo]_vars

(* ---------------------------- GithubPR.Create, PR ----------------------- *)
\* the steps of GithubPR.Create in the order of its body
CreateSteps ==
    <<"Clone", "PushCommit", "RaisePR", "WaitForPR", "MergePR", "WaitForMergeCommit">>

\* pr.go:75, part_003:294
ErrNotMergeable == "PR is not mergeable"

\* pr.go:64
ErrGetPR == "failed to retrieve GitHub PR"

\* pr.go:71
ErrMergePR == "failedd to merge PR"

\* pr.go:45
ErrCreatePR == "failed to create PR"

\* part_003:262
ErrWaitTimedOut == "timed out waiting for PR to become mergeable"

\* part_003:244, part_004:135
ErrStatusFailed == "target status check is in a failed state, aborting"

\* Mergeable of a fetched pull request: a *bool
Mergeables == {"nil", "false", "true"}

\* the errors each step of GithubPR.Create can return, "nil" for none
StepErrors(step) ==
    CASE step = "Clone" -> {"nil", "chroot error", "clone error"}
      [] step = "PushCommit" -> {"nil", "push error"}
      [] step = "RaisePR" -> {"nil", "create error"}
      [] step = "WaitForPR" -> {"nil", "get error", "list error", ErrStatusFailed, ErrWaitTimedOut}
      [] step = "MergePR" -> {"nil", "get error", "merge error", ErrNotMergeable}
      [] step = "WaitForMergeCommit" -> {"nil", "list error", ErrStatusFailed, ErrWaitTimedOut}
      [] step = "Close" -> {"nil", "remove error"}

\* part_003:315-341.  `err = g.step(); if err != nil { return err }`: the step
\* is invoked and returns err; a non-nil err ends Create, whose deferred
\* Close then runs
Invoked(step, err, next) ==
    /\ gSteps' = Append(gSteps, [step |-> step, err |-> err])
    /\ gErr' = err
    /\ gpc' = IF err = "nil" THEN next ELSE "Close"

\* the step is invoked and Create goes on whatever it returned
InvokedUnchecked(step, err, next) ==
    /\ gSteps' = Append(gSteps, [step |-> step, err |-> err])
    /\ gErr' = err
    /\ gpc' = next

\* the error test stands before the defer: a failed Clone returns at once
GithubPRClone_ReturnBeforeDefer(err) ==
    /\ gpc = "Clone"
    /\ gSteps' = Append(gSteps, [step |-> "Clone", err |-> err])
    /\ gErr' = err
    /\ gpc' = IF err = "nil" THEN "PushCommit" ELSE "returned"
    /\ UNCHANGED <<gMergeable, gMergeCalls, gMergeSHA>>
    /\ UNCHANGED <<prNumber, prSha, prMergedSha, prMergeable, prMergeCalls, prLast, prOps>>
    /\ UNCHANGED <<pollVars, repoVars, auxVars>>

\* part_003:315-319 (Clone: part_003:123-145)
GithubPRClone(err) ==
    /\ gpc = "Clone"
    /\ Invoked("Clone", err, "PushCommit")
    /\ UNCHANGED <<gMergeable, gMergeCalls, gMergeSHA>>
    /\ UNCHANGED <<prNumber, prSha, prMergedSha, prMergeable, prMergeCalls, prLast, prOps>>
    /\ UNCHANGED <<pollVars, repoVars, auxVars>>

\* part_003:321-324 (PushCommit: part_003:149-195)
GithubPRPushCommit(err) ==
    /\ gpc = "PushCommit"
    /\ Invoked("PushCommit", err, "RaisePR")
    /\ UNCHANGED <<gMergeable, gMergeCalls, gMergeSHA>>
    /\ UNCHANGED <<prNumber, prSha, prMergedSha, prMergeable, prMergeCalls, prLast, prOps>>
    /\ UNCHANGED <<pollVars, repoVars, auxVars>>

\* part_003:326-329 (RaisePR: part_003:198-213)
GithubPRRaisePR(err) ==
    /\ gpc = "RaisePR"
    /\ Invoked("RaisePR", err, "WaitForPR")
    /\ UNCHANGED <<gMergeable, gMergeCalls, gMergeSHA>>
    /\ UNCHANGED <<prNumber, prSha, prMergedSha, prMergeable, prMergeCalls, prLast, prOps>>
    /\ UNCHANGED <<pollVars, repoVars, auxVars>>

\* the error of the wait on the PR head is not tested
GithubPRWaitForPR_Unchecked(err) ==
    /\ gpc = "WaitForPR"
    /\ InvokedUnchecked("WaitForPR", err, "MergePR")
    /\ UNCHANGED <<gMergeable, gMergeCalls, gMergeSHA>>
    /\ UNCHANGED <<prNumber, prSha, prMergedSha, prMergeable, prMergeCalls, prLast, prOps>>
    /\ UNCHANGED <<pollVars, repoVars, auxVars>>

\* part_003:331-334 (WaitForPR: part_003:268-277)
GithubPRWaitForPR(err) ==
    /\ gpc = "WaitForPR"
    /\ Invoked("WaitForPR", err, "MergePR")
    /\ UNCHANGED <<gMergeable, gMergeCalls, gMergeSHA>>
    /\ UNCHANGED <<prNumber, prSha, prMergedSha, prMergeable, prMergeCalls, prLast, prOps>>
    /\ UNCHANGED <<pollVars, repoVars, auxVars>>

\* the merge is also made when Mergeable is not reported
GithubPRMergePR_MergesOnNil(getErr, mergeable, mergeErr) ==
    /\ gpc = "MergePR"
    /\ IF getErr
       THEN /\ Invoked("MergePR", "get error", "WaitForMergeCommit")
            /\ UNCHANGED <<gMergeable, gMergeCalls, gMergeSHA>>
       ELSE /\ gMergeable' = mergeable
            /\ IF mergeable # "false"
               THEN /\ gMergeCalls' = gMergeCalls + 1
                    /\ IF mergeErr
                       THEN /\ Invoked("MergePR", "merge error", "WaitForMergeCommit")
                            /\ UNCHANGED gMergeSHA
                       ELSE /\ Invoked("MergePR", "nil", "WaitForMergeCommit")
                            /\ gMergeSHA' = "merge sha"
               ELSE /\ Invoked("MergePR", ErrNotMergeable, "WaitForMergeCommit")
                    /\ UNCHANGED <<gMergeCalls, gMergeSHA>>
    /\ UNCHANGED <<prNumber, prSha, prMergedSha, prMergeable, prMergeCalls, prLast, prOps>>
    /\ UNCHANGED <<pollVars, repoVars, auxVars>>

\* part_003:336-339 (MergePR: part_003:281-297).  getErr: PullRequests.Get
\* fails; mergeable: Mergeable of the pull request it returns; mergeErr:
\* PullRequests.Merge fails
GithubPRMergePR(getErr, mergeable, mergeErr) ==
    /\ gpc = "MergePR"
    /\ IF getErr
       THEN /\ Invoked("MergePR", "get error", "WaitForMergeCommit")
            /\ UNCHANGED <<gMergeable, gMergeCalls, gMergeSHA>>
       ELSE /\ gMergeable' = mergeable
            /\ IF mergeable = "true"
               THEN /\ gMergeCalls' = gMergeCalls + 1
                    /\ IF mergeErr
                       THEN /\ Invoked("MergePR", "merge error", "WaitForMergeCommit")
                            /\ UNCHANGED gMergeSHA
                       ELSE /\ Invoked("MergePR", "nil", "WaitForMergeCommit")
                            /\ gMergeSHA' = "merge sha"
               ELSE /\ Invoked("MergePR", ErrNotMergeable, "WaitForMergeCommit")
                    /\ UNCHANGED <<gMergeCalls, gMergeSHA>>
    /\ UNCHANGED <<prNumber, prSha, prMergedSha, prMergeable, prMergeCalls, prLast, prOps>>
    /\ UNCHANGED <<pollVars, repoVars, auxVars>>

\* part_003:341 (WaitForMergeCommit: part_003:302-304): Create returns what
\* the wait returns
GithubPRWaitForMergeCommit(err) ==
    /\ gpc = "WaitForMergeCommit"
    /\ Invoked("WaitForMergeCommit", err, "Close")
    /\ UNCHANGED <<gMergeable, gMergeCalls, gMergeSHA>>
    /\ UNCHANGED <<prNumber, prSha, prMergedSha, prMergeable, prMergeCalls, prLast, prOps>>
    /\ UNCHANGED <<pollVars, repoVars, auxVars>>

\* part_003:316 `defer g.Close()` (Close: part_003:307-309): runs when Create
\* returns; what Close returns is dropped
GithubPRClose(err) ==
    /\ gpc = "Close"
    /\ gSteps' = Append(gSteps, [step |-> "Close", err |-> err])
    /\ gpc' = "returned"
    /\ UNCHANGED <<gErr, gMergeable, gMergeCalls, gMergeSHA>>
    /\ UNCHANGED <<prNumber, prSha, prMergedSha, prMergeable, prMergeCalls, prLast, prOps>>
    /\ UNCHANGED <<pollVars, repoVars, auxVars>>

\* pull request numbers and SHAs GitHub answers with
Numbers == {1, 12}

Shas == {"sha1", "sha2"}

\* Number and PRSha are taken from the answer before the error is tested
PRCreateWith_AssignsFirst(err, number, sha) ==
    /\ prOps < MaxOps
    /\ prOps' = prOps + 1
    /\ prNumber' = number
    /\ prSha' = sha
    /\ prAnswer' = IF err THEN NoAnswer ELSE [number |-> number, sha |-> sha]
    /\ prLast' = [op |-> "Create", err |-> IF err THEN ErrCreatePR ELSE "nil"]
    /\ prApiCalls' = prApiCalls + 1
    /\ UNCHANGED <<prMergedSha, prMergeable, prMergeCalls>>
    /\ UNCHANGED <<gpc, gErr, gSteps, gMergeable, gMergeCalls, gMergeSHA>>
    /\ UNCHANGED <<pollVars, repoVars, exceptUrl, prRepo, prUrl>>

\* pr.go:36-52.  err: PullRequests.Create fails
PRCreateWith(err, number, sha) ==
    /\ prOps < MaxOps
    /\ prOps' = prOps + 1
    /\ IF err
       THEN /\ prLast' = [op |-> "Create", err |-> ErrCreatePR]
            /\ prAnswer' = NoAnswer
            /\ UNCHANGED <<prNumber, prSha>>
       ELSE /\ prAnswer' = [number |-> number, sha |-> sha]
            /\ prNumber' = number
            /\ prSha' = sha
            /\ prLast' = [op |-> "Create", err |-> "nil"]
    /\ prApiCalls' = prApiCalls + 1
    /\ UNCHANGED <<prMergedSha, prMergeable, prMergeCalls>>
    /\ UNCHANGED <<gpc, gErr, gSteps, gMergeable, gMergeCalls, gMergeSHA>>
    /\ UNCHANGED <<pollVars, repoVars, exceptUrl, prRepo, prUrl>>

PRCreate == \E err \in BOOLEAN, number \in Numbers, sha \in Shas : PRCreateWith(err, number, sha)

\* pr.go:61-78.  getErr: GetGithubPR fails; mergeable: Mergeable of the pull
\* request it returns; mergeErr: PullRequests.Merge fails; sha: SHA of the
\* merge
PRMergeWith(getErr, mergeable, mergeErr, sha) ==
    /\ prOps < MaxOps
    /\ prOps' = prOps + 1
    /\ IF getErr
       THEN /\ prLast' = [op |-> "Merge", err |-> ErrGetPR]
            /\ prMergeable' = "none"
            /\ UNCHANGED <<prMergeCalls, prMergedSha>>
       ELSE /\ prMergeable' = mergeable
            /\ IF mergeable = "true"
               THEN /\ prMergeCalls' = prMergeCalls + 1
                    /\ IF mergeErr
                       THEN /\ prLast' = [op |-> "Merge", err |-> ErrMergePR]
                            /\ UNCHANGED prMergedSha
                       ELSE /\ prMergedSha' = sha
                            /\ prLast' = [op |-> "Merge", err |-> "nil"]
               ELSE /\ prLast' = [op |-> "Merge", err |-> ErrNotMergeable]
                    /\ UNCHANGED <<prMergeCalls, prMergedSha>>
    /\ prAnswer' = IF ~getErr /\ mergeable = "true" /\ ~mergeErr
                   THEN [number |-> prNumber, sha |-> sha]
                   ELSE NoAnswer
    /\ prApiCalls' = prApiCalls + (IF ~getErr /\ mergeable = "true" THEN 2 ELSE 1)
    /\ UNCHANGED <<prNumber, prSha>>
    /\ UNCHANGED <<gpc, gErr, gSteps, gMergeable, gMergeCalls, gMergeSHA>>
    /\ UNCHANGED <<pollVars, repoVars, exceptUrl, prRepo, prUrl>>

PRMerge ==
    \E getErr \in BOOLEAN, mergeable \in Mergeables, mergeErr \in BOOLEAN, sha \in Shas :
        PRMergeWith(getErr, mergeable, mergeErr, sha)

\* strconv of %d: the decimal digits of n
RECURSIVE Itoa(_)
Itoa(n) ==
    LET digit(d) == <<"0", "1", "2", "3", "4", "5", "6", "7", "8", "9">>[d + 1]
    IN IF n < 10 THEN digit(n) ELSE Itoa(n \div 10) \o digit(n % 10)

\* the format string "https://github.com/%s/%s/pulls/%d"
Sprintf_Pulls(owner, name, n) ==
    "https://github.com/" \o owner \o "/" \o name \o "/pulls/" \o Itoa(n)

\* pr.go:99, fmt.Sprintf("https://github.com/%s/%s/pull/%d", owner, name, n)
Sprintf(owner, name, n) ==
    "https://github.com/" \o owner \o "/" \o name \o "/pull/" \o Itoa(n)

\* pr.go:96
ErrNoNumber == "pull request doesn't have a valid PR number (was PR creation successful?)"

\* the URL is asked of GitHub: one call of the client
PRURL_FromAPI ==
    /\ prOps < MaxOps
    /\ prOps' = prOps + 1
    /\ IF prNumber = 0
       THEN /\ prUrl' = [called |-> TRUE, url |-> "", err |-> ErrNoNumber]
            /\ prLast' = [op |-> "URL", err |-> ErrNoNumber]
            /\ UNCHANGED prApiCalls
       ELSE /\ prUrl' = [called |-> TRUE,
                         url |-> Sprintf(prRepo.Owner, prRepo.Name, prNumber),
                         err |-> "nil"]
            /\ prLast' = [op |-> "URL", err |-> "nil"]
            /\ prApiCalls' = prApiCalls + 1
    /\ UNCHANGED <<prNumber, prSha, prMergedSha, prMergeable, prMergeCalls>>
    /\ UNCHANGED <<gpc, gErr, gSteps, gMergeable, gMergeCalls, gMergeSHA>>
    /\ UNCHANGED <<pollVars, repoVars, exceptUrl, prRepo, prAnswer>>

\* pr.go:94-100
PRURL ==
    /\ prOps < MaxOps
    /\ prOps' = prOps + 1
    /\ IF prNumber = 0
       THEN /\ prUrl' = [called |-> TRUE, url |-> "", err |-> ErrNoNumber]
            /\ prLast' = [op |-> "URL", err |-> ErrNoNumber]
       ELSE /\ prUrl' = [called |-> TRUE,
                         url |-> Sprintf(prRepo.Owner, prRepo.Name, prNumber),
                         err |-> "nil"]
            /\ prLast' = [op |-> "URL", err |-> "nil"]
    /\ UNCHANGED prApiCalls
    /\ UNCHANGED <<prNumber, prSha, prMergedSha, prMergeable, prMergeCalls>>
    /\ UNCHANGED <<gpc, gErr, gSteps, gMergeable, gMergeCalls, gMergeSHA>>
    /\ UNCHANGED <<pollVars, repoVars, exceptUrl, prRepo, prAnswer>>

\* owner and name of the repositories of pr.go:200 and of the examples
Repos == {[Owner |-> "test", Name |-> "user"], [Owner |-> "shteou", Name |-> "go-ghpr"]}

\* GithubPR.Create, part_003:314-342, one step at a time
GithubPRCreate ==
    \/ \E err \in StepErrors("Clone") : GithubPRClone(err)
    \/ \E err \in StepErrors("PushCommit") : GithubPRPushCommit(err)
    \/ \E err \in StepErrors("RaisePR") : GithubPRRaisePR(err)
    \/ \E err \in StepErrors("WaitForPR") : GithubPRWaitForPR(err)
    \/ \E getErr \in BOOLEAN, mergeable \in Mergeables, mergeErr \in BOOLEAN :
           GithubPRMergePR(getErr, mergeable, mergeErr)
    \/ \E err \in StepErrors("WaitForMergeCommit") : GithubPRWaitForMergeCommit(err)
    \/ \E err \in StepErrors("Close") : GithubPRClose(err)

\* one GithubPR on which Create is called and one PR on which Create and
\* Merge are called
InitFlow ==
    /\ checks = <<>>
    /\ strategy = FixedStrategy
    /\ PollFresh
    /\ RepoFresh
    /\ FlowFresh
    /\ repoName = <<>>
    /\ MakeFresh
    /\ PushFresh
    /\ prRepo \in Repos
    /\ UrlFresh
    /\ FetchFresh
    /\ BgFresh
    /\ StFresh

NextFlow ==
    \/ GithubPRCreate
    \/ PRCreate
    \/ PRMerge
    \/ PRURL

SpecFlow == InitFlow /\ [][NextFlow]_vars

(* ---------------------------- makeGithubPR ----------------------------- *)
\* characters of repository names
NameChars == {"a", "b", "/"}

\* part_003:90
ErrInvalidName == "invalid repository name supplied"

\* the regexp "^[^/]+/.+$": any text may follow the first slash
RECURSIVE matchManySlashesFrom(_, _, _)
matchManySlashesFrom(s, i, st) ==
    IF i > Len(s)
    THEN st = 3
    ELSE LET next == CASE st = 0 -> IF s[i] # "/" THEN 1 ELSE 4
                       [] st = 1 -> IF s[i] # "/" THEN 1 ELSE 2
                       [] st = 2 -> 3
                       [] st = 3 -> 3
                       [] OTHER -> 4
         IN matchManySlashesFrom(s, i + 1, next)

MatchString_ManySlashes(s) == matchManySlashesFrom(s, 1, 0)

\* part_003:85, regexp.MatchString("^[^/]+/[^/]+$", s) from character i on.
\* st: 0 at the start of the text, 1 inside the first [^/]+, 2 after the
\* slash, 3 inside the second [^/]+, 4 when the match has failed; $ matches
\* at the end of the text only
RECURSIVE matchFrom(_, _, _)
matchFrom(s, i, st) ==
    IF i > Len(s)
    THEN st = 3
    ELSE LET next == CASE st = 0 -> IF s[i] # "/" THEN 1 ELSE 4
                       [] st = 1 -> IF s[i] # "/" THEN 1 ELSE 2
                       [] st = 2 -> IF s[i] # "/" THEN 3 ELSE 4
                       [] st = 3 -> IF s[i] # "/" THEN 3 ELSE 4
                       [] OTHER -> 4
         IN matchFrom(s, i + 1, next)

MatchString(s) == matchFrom(s, 1, 0)

\* strings.Split(s, "/") from character i on: cur is the piece being read,
\* acc the pieces before it
RECURSIVE splitFrom(_, _, _, _)
splitFrom(s, i, cur, acc) ==
    IF i > Len(s)
    THEN Append(acc, cur)
    ELSE IF s[i] = "/"
         THEN splitFrom(s, i + 1, <<>>, Append(acc, cur))
         ELSE splitFrom(s, i + 1, Append(cur, s[i]), acc)

\* part_003:93-94
Split(s) == splitFrom(s, 1, <<>>, <<>>)

\* part_003:81-120.  tempFail: util.TempDir fails; chrootFail: Chroot fails
makeGithubPRWith(tempFail, chrootFail) ==
    /\ ~mkResult.called
    /\ IF ~MatchString(repoName)
       THEN /\ mkResult' = [called |-> TRUE, g |-> NilGithubPR, err |-> ErrInvalidName]
            /\ UNCHANGED mkDirs
       ELSE IF tempFail
       THEN /\ mkResult' = [called |-> TRUE, g |-> NilGithubPR, err |-> "tempdir error"]
            /\ UNCHANGED mkDirs
       ELSE /\ mkDirs' = mkDirs + 1
            /\ IF chrootFail
               THEN mkResult' = [called |-> TRUE, g |-> NilGithubPR, err |-> "chroot error"]
               ELSE mkResult' =
                        [called |-> TRUE,
                         g |-> [nil |-> FALSE,
                                owner |-> Split(repoName)[1],
                                repo |-> Split(repoName)[2],
                                filesystem |-> mkDirs',
                                path |-> mkDirs',
                                gitHubClient |-> TRUE],
                         err |-> "nil"]
    /\ UNCHANGED repoName
    /\ UNCHANGED <<pollVars, repoVars, flowVars, exceptMake>>

makeGithubPR == \E tempFail \in BOOLEAN, chrootFail \in BOOLEAN : makeGithubPRWith(tempFail, chrootFail)

\* makeGithubPR is called with some repository name
InitMake ==
    /\ checks = <<>>
    /\ strategy = FixedStrategy
    /\ PollFresh
    /\ RepoFresh
    /\ FlowFresh
    /\ repoName \in SeqUpTo(NameChars, MaxName)
    /\ MakeFresh
    /\ PushFresh
    /\ prRepo = [Owner |-> "test", Name |-> "user"]
    /\ UrlFresh
    /\ FetchFresh
    /\ BgFresh
    /\ StFresh

NextMake == makeGithubPR

SpecMake == InitMake /\ [][NextMake]_vars

(* ---------------------------- Change.Push ------------------------------ *)
\* branch names of the cloned repository and of the remote
Branches == {"master", "foo"}

\* the calls of Change.Push that can return an error, in the order of its body
PushSteps ==
    <<"Head", "SetReference", "Worktree", "updateFunc", "Commit", "SetRemoteReference", "Push">>

\* part_001:32-76, the message each failing call is wrapped in
PushError(step) ==
    CASE step = "Head" -> "failed to retrieve HEAD ref of repository"
      [] step = "SetReference" -> "failed to set reference for new branch"
      [] step = "Worktree" -> "failed to fetch Worktree for cloned repository"
      [] step = "updateFunc" -> "failed to update Worktree with changes"
      [] step = "Commit" -> "failed to commit changes"
      [] step = "SetRemoteReference" -> "failed to set reference for remote branch"
      [] step = "Push" -> "failed to push branch to remote repository"
      [] OTHER -> "nil"

\* position of a step in the body of Push; 8 for "none"
StepIndex(step) ==
    IF \E i \in 1..Len(PushSteps) : PushSteps[i] = step
    THEN CHOOSE i \in 1..Len(PushSteps) : PushSteps[i] = step
    ELSE Len(PushSteps) + 1

\* the step at position i ran without failing when the first failure is at fail
Passed(i, fail) == i < StepIndex(fail)

\* the commits are numbered in the order they are made and every commit is
\* made on top of the newest one: the commits reachable from commit c
Ancestors(c) == 1..c

\* what one call of Push did.  checkout: outcome of w.Checkout; updates:
\* calls of updateFunc; on: the branch the commit was made on; pushes:
\* calls of Repository.Push
PushReturned(fail, checkedOut, commit, head1, pushes) ==
    [op |-> "Push", err |-> PushError(fail), made |-> commit,
     before |-> rCommits, prevErr |-> chLast.err,
     checkout |-> IF ~Passed(3, fail) THEN "none"
                  ELSE IF checkedOut THEN "done" ELSE "failed",
     updates |-> IF Passed(3, fail) THEN 1 ELSE 0,
     on |-> IF commit # 0 THEN head1 ELSE "none",
     pushes |-> pushes]

\* the errors of Commit and of the remote SetReference are returned only
\* after the push has been made
ChangePushWith_PushesFirst(fail, checkedOut) ==
    LET h0       == lRefs[lHead]
        refs1    == IF Passed(2, fail) THEN [lRefs EXCEPT ![cBranch] = h0] ELSE lRefs
        head1    == IF Passed(3, fail) /\ checkedOut THEN cBranch ELSE lHead
        commit   == IF Passed(5, fail) THEN lCommits + 1 ELSE 0
        refs2    == IF commit # 0 THEN [refs1 EXCEPT ![head1] = commit] ELSE refs1
        pushed   == {b \in Branches : refs2[b] # 0}
        doPush   == Passed(4, fail)
    IN /\ pushCalls < MaxPushes
       /\ pushCalls' = pushCalls + 1
       /\ lRefs' = refs2
       /\ lHead' = head1
       /\ lCommits' = IF commit # 0 THEN commit ELSE lCommits
       /\ IF doPush /\ fail # "Push"
          THEN /\ rRefs' = [b \in Branches |-> IF b \in pushed THEN refs2[b] ELSE rRefs[b]]
               /\ rCommits' = rCommits \cup UNION {Ancestors(refs2[b]) : b \in pushed}
          ELSE UNCHANGED <<rRefs, rCommits>>
       /\ chLast' = PushReturned(fail, checkedOut, commit, head1, IF doPush THEN 1 ELSE 0)
       /\ UNCHANGED cBranch
       /\ UNCHANGED <<pollVars, repoVars, flowVars, exceptPush>>

\* part_001:29-79.  fail: the first call that returns an error ("none" when
\* none does); checkedOut: w.Checkout moved HEAD to the branch (its error is
\* not looked at, part_001:47)
ChangePushWith(fail, checkedOut) ==
    LET h0       == lRefs[lHead]
        refs1    == IF Passed(2, fail) THEN [lRefs EXCEPT ![cBranch] = h0] ELSE lRefs
        head1    == IF Passed(3, fail) /\ checkedOut THEN cBranch ELSE lHead
        commit   == IF Passed(5, fail) THEN lCommits + 1 ELSE 0
        refs2    == IF commit # 0 THEN [refs1 EXCEPT ![head1] = commit] ELSE refs1
        pushed   == {b \in Branches : refs2[b] # 0}
        doPush   == Passed(6, fail)
    IN /\ pushCalls < MaxPushes
       /\ pushCalls' = pushCalls + 1
       /\ lRefs' = refs2
       /\ lHead' = head1
       /\ lCommits' = IF commit # 0 THEN commit ELSE lCommits
       /\ IF fail = "none"
          THEN \* part_001:72-74, Push with the default refspec refs/heads/*
               /\ rRefs' = [b \in Branches |-> IF b \in pushed THEN refs2[b] ELSE rRefs[b]]
               /\ rCommits' = rCommits \cup UNION {Ancestors(refs2[b]) : b \in pushed}
          ELSE UNCHANGED <<rRefs, rCommits>>
       /\ chLast' = PushReturned(fail, checkedOut, commit, head1, IF doPush THEN 1 ELSE 0)
       /\ UNCHANGED cBranch
       /\ UNCHANGED <<pollVars, repoVars, flowVars, exceptPush>>

ChangePush ==
    \E fail \in {"none"} \cup {PushSteps[i] : i \in 1..Len(PushSteps)}, checkedOut \in BOOLEAN :
        ChangePushWith(fail, checkedOut)

\* a Change on a clone with one commit on master; the origin is empty
\* (change_test.go:83-96) or holds the cloned commit
InitPush ==
    /\ checks = <<>>
    /\ strategy = FixedStrategy
    /\ PollFresh
    /\ RepoFresh
    /\ FlowFresh
    /\ repoName = <<>>
    /\ MakeFresh
    /\ prRepo = [Owner |-> "test", Name |-> "user"]
    /\ UrlFresh
    /\ FetchFresh
    /\ BgFresh
    /\ StFresh
    /\ cBranch \in Branches
    /\ lHead = "master"
    /\ lRefs = [b \in Branches |-> IF b = "master" THEN 1 ELSE 0]
    /\ lCommits = 1
    /\ \/ (rRefs = [b \in Branches |-> 0] /\ rCommits = {})
       \/ (rRefs = lRefs /\ rCommits = {1})
    /\ pushCalls = 0
    /\ chLast = [op |-> "NewChange", err |-> "nil", made |-> 0, before |-> {},
                 prevErr |-> "nil", checkout |-> "none", updates |-> 0,
                 on |-> "none", pushes |-> 0]

NextPush == ChangePush

SpecPush == InitPush /\ [][NextPush]_vars

(* ---------------------------- single-context waits --------------------- *)
\* the status context the single-context waits poll for
WaitStatusContext == "A"

\* part_003:233-247 and part_004:125-137.  The loop over the fetched list
\* from entry i on: the first entry of the context whose state is success,
\* failure or error decides; entries of other contexts and other states are
\* passed over
RECURSIVE decideFrom(_, _, _)
decideFrom(context, sts, i) ==
    IF i > Len(sts)
    THEN "pending"
    ELSE IF sts[i].Context # context
         THEN decideFrom(context, sts, i + 1)
         ELSE IF sts[i].State = "success"
              THEN "success"
              ELSE IF sts[i].State \in {"failure", "error"}
                   THEN "failed"
                   ELSE decideFrom(context, sts, i + 1)

decide(context, sts) == decideFrom(context, sts, 1)

\* part_003:215-250, GithubPR.waitForStatus in its goroutine: one iteration
\* up to the send on c or the time.Sleep.  err: ListStatuses fails
waitForStatusTick(err, sts) ==
    /\ bgpc = "fetch"
    /\ bgFetches < MaxTicks
    /\ bgFetches' = bgFetches + 1
    /\ IF err
       THEN /\ chanC' = Append(chanC, "list error")
            /\ bgpc' = "exited"
            /\ bgStatuses' = <<>>
       ELSE /\ bgStatuses' = sts
            /\ LET d == decide(WaitStatusContext, sts) IN
               IF d = "success"
               THEN chanC' = Append(chanC, "nil") /\ bgpc' = "exited"
               ELSE IF d = "failed"
                    THEN chanC' = Append(chanC, ErrStatusFailed) /\ bgpc' = "exited"
                    ELSE bgpc' = "sleep" /\ UNCHANGED chanC
    /\ UNCHANGED <<wpc, wResult, wFetches>>
    /\ UNCHANGED <<pollVars, repoVars, flowVars, exceptBg>>

waitForStatusFetch ==
    \E err \in BOOLEAN, sts \in SeqUpTo(RepoStatus, MaxStatuses) : waitForStatusTick(err, sts)

\* part_003:248, time.Sleep(b.Duration()) ends
waitForStatusWake ==
    /\ bgpc = "sleep"
    /\ bgpc' = "fetch"
    /\ UNCHANGED <<bgFetches, bgStatuses, chanC, wpc, wResult, wFetches>>
    /\ UNCHANGED <<pollVars, repoVars, flowVars, exceptBg>>

\* part_003:258-260, the select of waitForStatusWithTimeout receives from c
waitForStatusWithTimeoutReceive ==
    /\ wpc = "select"
    /\ chanC # <<>>
    /\ wResult' = Head(chanC)
    /\ chanC' = Tail(chanC)
    /\ wpc' = "returned"
    /\ wFetches' = bgFetches
    /\ UNCHANGED <<bgpc, bgFetches, bgStatuses>>
    /\ UNCHANGED <<pollVars, repoVars, flowVars, exceptBg>>

\* part_003:261-262, the select of waitForStatusWithTimeout takes the
\* time.After(timeout) case
waitForStatusWithTimeoutExpire ==
    /\ wpc = "select"
    /\ wResult' = ErrWaitTimedOut
    /\ wpc' = "returned"
    /\ wFetches' = bgFetches
    /\ UNCHANGED <<bgpc, bgFetches, bgStatuses, chanC>>
    /\ UNCHANGED <<pollVars, repoVars, flowVars, exceptBg>>

\* one call of GithubPR.waitForStatusWithTimeout: the goroutine is started
\* and the caller is in the select (part_003:252-257)
InitTimeout ==
    /\ checks = <<>>
    /\ strategy = FixedStrategy
    /\ PollFresh
    /\ RepoFresh
    /\ FlowFresh
    /\ AuxFresh

NextTimeout ==
    \/ waitForStatusFetch
    \/ waitForStatusWake
    \/ waitForStatusWithTimeoutReceive
    \/ waitForStatusWithTimeoutExpire

SpecTimeout == InitTimeout /\ [][NextTimeout]_vars

\* github.com/pkg/errors Wrap as part_004:122 and part_004:135 call it: a
\* nil err gives nil, any other err is annotated with the message
Wrap(err, message) == IF err = "nil" THEN "nil" ELSE message \o ": " \o err

\* part_004:122
ErrListStatuses == "failed listing statuses while waiting"

\* part_004:140
ErrStatusTimedOut == "timed out waiting for status"

\* part_004:116-137, PR.waitForStatus: one iteration up to a return or the
\* select.  listErr: what ListStatuses returns as err, "nil" for none
PRWaitForStatusTick(listErr, sts) ==
    /\ spc = "fetch"
    /\ sFetches < MaxTicks
    /\ sFetches' = sFetches + 1
    /\ IF listErr # "nil"
       THEN /\ sStatuses' = <<>>
            /\ sResult' = Wrap(listErr, ErrListStatuses)
            /\ spc' = "returned"
       ELSE /\ sStatuses' = sts
            /\ LET d == decide(WaitStatusContext, sts)
                   err == listErr
               IN  IF d = "success"
                   THEN sResult' = "nil" /\ spc' = "returned"
                   ELSE IF d = "failed"
                        THEN sResult' = Wrap(err, ErrStatusFailed) /\ spc' = "returned"
                        ELSE spc' = "select" /\ UNCHANGED sResult
    /\ sFrom' = IF spc' = "returned" THEN "fetch" ELSE sFrom
    /\ UNCHANGED sCancelled
    /\ UNCHANGED <<pollVars, repoVars, flowVars, exceptSt>>

PRWaitForStatusFetch ==
    \E listErr \in {"nil", "list error"}, sts \in SeqUpTo(RepoStatus, MaxStatuses) :
        PRWaitForStatusTick(listErr, sts)

\* the caller's context is cancelled or passes its deadline
PRWaitForStatusCancel ==
    /\ ~sCancelled
    /\ spc # "returned"
    /\ sCancelled' = TRUE
    /\ UNCHANGED <<spc, sResult, sStatuses, sFetches, sFrom>>
    /\ UNCHANGED <<pollVars, repoVars, flowVars, exceptSt>>

\* part_004:139-140, the select takes <-ctx.Done()
PRWaitForStatusSelectDone ==
    /\ spc = "select"
    /\ sCancelled
    /\ sResult' = ErrStatusTimedOut
    /\ spc' = "returned"
    /\ sFrom' = "select"
    /\ UNCHANGED <<sStatuses, sFetches, sCancelled>>
    /\ UNCHANGED <<pollVars, repoVars, flowVars, exceptSt>>

\* part_004:141, the select takes <-time.After(b.Duration())
PRWaitForStatusSelectTimer ==
    /\ spc = "select"
    /\ spc' = "fetch"
    /\ UNCHANGED <<sResult, sStatuses, sFetches, sCancelled, sFrom>>
    /\ UNCHANGED <<pollVars, repoVars, flowVars, exceptSt>>

\* one call of PR.WaitForPRStatus or PR.WaitForMergeStatus
InitStatus ==
    /\ checks = <<>>
    /\ strategy = FixedStrategy
    /\ PollFresh
    /\ RepoFresh
    /\ FlowFresh
    /\ AuxFresh

NextStatus ==
    \/ PRWaitForStatusFetch
    \/ PRWaitForStatusCancel
    \/ PRWaitForStatusSelectDone
    \/ PRWaitForStatusSelectTimer

SpecStatus == InitStatus /\ [][NextStatus]_vars

(* ---------------------------- properties ------------------------------- *)
\* names of the required checks of kind status
RequiredStatus ==
    {checks[i].Name : i \in {j \in 1..Len(checks) : checks[j].CheckType = "status"}}

HasAction == \E i \in 1..Len(checks) : checks[i].CheckType = "action"

HasUnknown == \E i \in 1..Len(checks) : checks[i].CheckType \notin {"status", "action"}

\* sts has an entry for context c
HasEntry(c, sts) == \E i \in 1..Len(sts) : sts[i].Context = c

\* state of the first entry of sts for context c (HasEntry(c, sts) assumed)
FirstState(c, sts) ==
    LET i == CHOOSE k \in 1..Len(sts) :
                 /\ sts[k].Context = c
                 /\ \A j \in 1..(k - 1) : sts[j].Context # c
    IN sts[i].State

\* sts without the entries that repeat the context of an earlier entry
FirstEntries(sts) ==
    LET F[i \in 0..Len(sts)] ==
            IF i = 0 THEN <<>>
            ELSE IF \E j \in 1..(i - 1) : sts[j].Context = sts[i].Context
                 THEN F[i - 1]
                 ELSE Append(F[i - 1], sts[i])
    IN F[Len(sts)]

\* the latest tick fetched a list (no fetch error) and the wait has not
\* begun another iteration
Fetched == fetches > 0 /\ ~fetchErr /\ pc # "fetch"

SomeRequiredFailed ==
    \E c \in RequiredStatus :
        HasEntry(c, statuses) /\ FirstState(c, statuses) \in {"failure", "error"}

AllRequiredSucceeded ==
    \A c \in RequiredStatus :
        HasEntry(c, statuses) /\ FirstState(c, statuses) = "success"

IsCheckFailed(e) == \E n \in Names : e = ErrCheckFailed(n)

\* C1 (as claimed): whenever the list fetched on the latest tick holds, as
\* first entry of some required status check, a failure or error, the wait
\* has returned a check-failed error on that tick, without a sleep, wherever
\* the failed check stands in the list and whatever the other checks report.
C1_FailedCheckAborts ==
    (Fetched /\ SomeRequiredFailed) =>
        /\ pc = "done"
        /\ doneFrom = "fetch"
        /\ IsCheckFailed(result)
        /\ sleeps = fetches - 1

\* C2: a tick whose list has no failed or errored required check and has a
\* required check that is absent or whose first entry is not success is
\* pending: the wait enters the backoff sleep and returns nothing on that
\* tick (it can only return later, timed out, from the sleep).
C2_PendingTick ==
    (/\ Fetched
     /\ ~SomeRequiredFailed
     /\ ~AllRequiredSucceeded) =>
        /\ outcome = "pending"
        /\ sleeps = fetches
        /\ doneFrom # "fetch"
        /\ (pc = "done" => (doneFrom = "sleep" /\ result = ErrTimedOut))

\* C2 witness: required {A, B}, reported [{A, success}, {B, pending}], the
\* wait is in its backoff sleep.
C2_Witness ==
    /\ pc = "sleep"
    /\ checks = <<[Name |-> "A", CheckType |-> "status"],
                 [Name |-> "B", CheckType |-> "status"]>>
    /\ statuses = <<[Context |-> "A", State |-> "success"],
                   [Context |-> "B", State |-> "pending"]>>

\* C3: the wait has returned success exactly when the list fetched on the
\* latest tick gives every required status check a first entry of state
\* success.
C3_SuccessIffAllSucceeded ==
    (pc = "done" /\ result = Nil) <=> (Fetched /\ AllRequiredSucceeded)

\* C3 witness: success returned for two distinct required checks.
C3_Witness ==
    /\ pc = "done"
    /\ result = Nil
    /\ Cardinality(RequiredStatus) = 2
    /\ Len(statuses) = 2

\* C4: the evaluation of a tick, and the check a failure names, are those of
\* the fetched list reduced to the first entry of every context.
C4_FirstEntryDecides ==
    Fetched =>
        LET e == evaluate(targetStatuses, FirstEntries(statuses)) IN
        /\ outcome = e.kind
        /\ (pc = "done" /\ doneFrom = "fetch") =>
               result = IF e.kind = "failed" THEN ErrCheckFailed(e.name) ELSE Nil

\* C4 witness: a required check has two entries of different states, the
\* older one final (success, failure or error).
C4_Witness ==
    /\ Fetched
    /\ \E i, j \in 1..Len(statuses) :
          /\ i < j
          /\ statuses[i].Context = statuses[j].Context
          /\ statuses[i].Context \in RequiredStatus
          /\ statuses[i].State # statuses[j].State
          /\ statuses[j].State \in {"success", "failure", "error"}

\* C5 (as claimed): a list with an action check makes the wait return the
\* unsupported-check-type error with no fetch, no sleep and no pending tick,
\* whatever else the list holds.
C5_ActionIsUnsupported ==
    HasAction =>
        /\ pc \in {"start", "done"}
        /\ fetches = 0
        /\ sleeps = 0
        /\ hist = <<>>
        /\ (pc = "done" => result = ErrUnsupportedType)

\* C5 (amended): a list with an action check makes the wait return an error
\* with no fetch, no sleep and no pending tick; the error is the
\* unsupported-check-type error when every check is of kind status or
\* action.
C5_ActionIsUnsupportedUnlessUnknown ==
    HasAction =>
        /\ pc \in {"start", "done"}
        /\ fetches = 0
        /\ sleeps = 0
        /\ hist = <<>>
        /\ (pc = "done" => result # Nil)
        /\ (pc = "done" /\ ~HasUnknown => result = ErrUnsupportedType)

\* C5 witness: the wait returned for a list mixing a status and an action
\* check.
C5_Witness ==
    /\ pc = "done"
    /\ HasAction
    /\ ~HasUnknown
    /\ RequiredStatus # {}
    /\ result = ErrUnsupportedType

\* C6 (as claimed): a polling wait during which the context was cancelled
\* (no tick had evaluated to all successful, or the wait would have returned)
\* and that no failed check or fetch error ended, returns the timed-out
\* error, hence never success.
C6_CancelledNeverSucceeds ==
    (/\ pc = "done"
     /\ cancelled
     /\ doneFrom # "start"
     /\ outcome \notin {"failed", "fetcherr"}) =>
        (result = ErrTimedOut /\ result # Nil)

\* C6 (amended): a wait during which the context was cancelled returns the
\* timed-out error when it ends in the backoff sleep; it returns success
\* only from a tick, fetched before the sleep noticed the cancellation,
\* that evaluates to all successful; ending anywhere else it returns that
\* step's error (check type, fetch error, failed check).
C6_CancelledSucceedsOnlyOnSuccessTick ==
    (pc = "done" /\ cancelled) =>
        /\ (doneFrom = "sleep" => result = ErrTimedOut)
        /\ (doneFrom = "fetch" => (result = Nil <=> outcome = "success"))
        /\ (doneFrom = "start" => result \in {ErrUnknownType, ErrUnsupportedType})
        /\ (result = Nil => (Fetched /\ AllRequiredSucceeded))

\* C6 witness: cancelled while every tick so far was pending; the wait
\* returned the timed-out error from the sleep.
C6_Witness ==
    /\ pc = "done"
    /\ cancelled
    /\ doneFrom = "sleep"
    /\ result = ErrTimedOut
    /\ hist = <<"pending", "pending">>

\* C7: without cancellation, when the first k-1 ticks were pending and the
\* k-th is all successful, the wait has returned success after k fetches and
\* k-1 backoff sleeps.
C7_SuccessAfterKFetches ==
    \A k \in 1..Len(hist) :
        (/\ ~cancelled
         /\ \A i \in 1..(k - 1) : hist[i] = "pending"
         /\ hist[k] = "success") =>
            /\ pc = "done"
            /\ result = Nil
            /\ fetches = k
            /\ sleeps = k - 1
            /\ attempt = k - 1

\* C7 witness: pending, pending, success.
C7_Witness ==
    /\ pc = "done"
    /\ ~cancelled
    /\ result = Nil
    /\ hist = <<"pending", "pending", "success">>
    /\ fetches = 3
    /\ sleeps = 2

\* C8: a wait suspended in the backoff sleep whose context is cancelled
\* leaves the sleep either by returning the timed-out error (the signal is
\* observed) or, only if the interval had elapsed as well, by the timer;
\* once the timed-out error is returned no fetch is made.
C8_NoFetchAfterCancelObserved ==
    [][/\ (pc = "sleep" /\ cancelled /\ pc' # "sleep") =>
              \/ (pc' = "done" /\ result' = ErrTimedOut /\ fetches' = fetches)
              \/ (timer /\ pc' = "fetch")
       /\ (pc = "sleep" /\ pc' = "done") =>
              (cancelled /\ result' = ErrTimedOut /\ fetches' = fetches)
       /\ (pc = "done" /\ result = ErrTimedOut) =>
              (pc' = "done" /\ fetches' = fetches)]_vars

\* C8 witness: the cancellation was observed in the sleep after two fetches
\* while the timer had not fired.
C8_Witness ==
    /\ pc = "done"
    /\ doneFrom = "sleep"
    /\ cancelled
    /\ ~timer
    /\ result = ErrTimedOut
    /\ fetches = 2

\* C9: a fetch error ends the wait on its tick with the fetch error: it is
\* the only fetch error of the wait, it is the last tick, and no sleep
\* followed it.
C9_FetchErrorIsTerminal ==
    (\E i \in 1..Len(hist) : hist[i] = "fetcherr") =>
        /\ pc = "done"
        /\ doneFrom = "fetch"
        /\ result = ErrFetch
        /\ result # Nil
        /\ hist[Len(hist)] = "fetcherr"
        /\ \A i \in 1..(Len(hist) - 1) : hist[i] = "pending"
        /\ fetches = Len(hist)
        /\ sleeps = fetches - 1

\* C9 witness: a fetch error after two pending ticks.
C9_Witness ==
    /\ pc = "done"
    /\ hist = <<"pending", "pending", "fetcherr">>
    /\ result = ErrFetch

C11_FailedNamesFailedCheck ==
    (pc = "done" /\ IsCheckFailed(result)) =>
        /\ Fetched
        /\ doneFrom = "fetch"
        /\ \E n \in RequiredStatus :
              /\ result = ErrCheckFailed(n)
              /\ HasEntry(n, statuses)
              /\ FirstState(n, statuses) \in {"failure", "error"}

\* C11 witness: the second required check failed while the first is pending.
C11_Witness ==
    /\ pc = "done"
    /\ result = ErrCheckFailed("B")
    /\ Len(checks) = 2
    /\ checks[1].Name = "A"
    /\ HasEntry("A", statuses)
    /\ FirstState("A", statuses) = "pending"

\* the strategy satisfies MinPollTime <= MaxPollTime and factor >= 1
SoundStrategy ==
    /\ strategy.MinPollTime <= strategy.MaxPollTime
    /\ strategy.PollBackoffFactor >= 2

\* the two latest sleeps belong to the running wait
TwoSleeps ==
    /\ interval.call = calls
    /\ prevInterval.call = calls

C14_FreshBackoffPerWait ==
    [][/\ strategy' = strategy
       /\ (sleeps' = sleeps + 1) =>
              /\ interval'.call = calls
              /\ interval'.attempt = sleeps]_vars

\* C14 witness: the second wait is in its first sleep, at attempt 0, after a
\* first wait that slept at least twice.
C14_Witness ==
    /\ calls = 2
    /\ pc = "sleep"
    /\ sleeps = 1
    /\ interval.call = 2
    /\ interval.attempt = 0
    /\ prevInterval.call = 1
    /\ prevInterval.attempt >= 1

\* the steps of its body GithubPR.Create has invoked, the deferred Close left out
BodySteps == SelectSeq(gSteps, LAMBDA s : s.step # "Close")

\* C15: PR.Merge and GithubPR.MergePR call PullRequests.Merge only in a call
\* that fetched a pull request with Mergeable = true; a call that fetched
\* Mergeable false or nil returns "PR is not mergeable" and makes no merge
\* call.
C15_MergeOnlyWhenMergeable ==
    [][ /\ (prMergeCalls' # prMergeCalls => prMergeable' = "true")
        /\ (gMergeCalls' # gMergeCalls => gMergeable' = "true")
        /\ (prOps' # prOps /\ prLast'.op = "Merge" /\ prMergeable' \in {"nil", "false"}) =>
               (prLast'.err = ErrNotMergeable /\ prMergeCalls' = prMergeCalls)
        /\ (gpc = "MergePR" /\ gpc' # gpc /\ gMergeable' \in {"nil", "false"}) =>
               (gErr' = ErrNotMergeable /\ gMergeCalls' = gMergeCalls) ]_vars

\* C15 witness: PR.Merge merged once, then fetched a pull request that does
\* not report Mergeable and returned the error; MergePR fetched
\* Mergeable = false and Create returned the error without a merge call.
C15_Witness ==
    /\ prLast = [op |-> "Merge", err |-> ErrNotMergeable]
    /\ prMergeable = "nil"
    /\ prMergeCalls = 1
    /\ gpc = "returned"
    /\ gMergeable = "false"
    /\ gErr = ErrNotMergeable
    /\ gMergeCalls = 0

\* C16: the steps GithubPR.Create has invoked are a prefix of clone,
\* push-commit, raise PR, wait for PR, merge, wait for merge commit; every
\* step but the last invoked one returned no error; when Create returns, it
\* returns what the last invoked step returned, and it returns no error only
\* after all six steps; the merge call is made only after a successful wait.
C16_StepsInOrderStopAtFirstFailure ==
    /\ Len(BodySteps) <= Len(CreateSteps)
    /\ \A i \in 1..Len(BodySteps) : BodySteps[i].step = CreateSteps[i]
    /\ \A i \in 1..(Len(BodySteps) - 1) : BodySteps[i].err = "nil"
    /\ gpc \in {"Close", "returned"} =>
           /\ Len(BodySteps) >= 1
           /\ gErr = BodySteps[Len(BodySteps)].err
           /\ (gErr = "nil" => Len(BodySteps) = Len(CreateSteps))
    /\ gMergeCalls > 0 =>
           /\ Len(BodySteps) >= 5
           /\ BodySteps[4] = [step |-> "WaitForPR", err |-> "nil"]
    /\ (Len(BodySteps) = 6) => (BodySteps[5].err = "nil" /\ gMergeCalls = 1)

\* C16 witness: the wait on the PR head timed out; Create returned that error
\* after clone, push-commit, raise PR and the wait, without a merge.
C16_Witness ==
    /\ gpc = "returned"
    /\ gErr = ErrWaitTimedOut
    /\ Len(BodySteps) = 4
    /\ BodySteps[4].step = "WaitForPR"
    /\ gMergeCalls = 0

\* C17: when GithubPR.Create has returned, Close was invoked, once, and as
\* the last thing Create did; Close is not invoked while steps of the body
\* remain to run.
C17_CloseRunsLast ==
    /\ gpc = "returned" =>
           /\ Len(gSteps) >= 2
           /\ gSteps[Len(gSteps)].step = "Close"
           /\ \A i \in 1..(Len(gSteps) - 1) : gSteps[i].step # "Close"
    /\ gpc # "returned" => \A i \in 1..Len(gSteps) : gSteps[i].step # "Close"

\* C17 witness: Clone failed and Create returned its error after Close ran
\* (and failed to remove the directory).
C17_Witness ==
    /\ gpc = "returned"
    /\ gErr = "clone error"
    /\ gSteps = <<[step |-> "Clone", err |-> "clone error"],
                  [step |-> "Close", err |-> "remove error"]>>

\* C18 (as claimed): when a Close has returned (here: without an error), no
\* temporary directory created by the Repo exists any more, whatever Clone
\* and Close calls came before.
C18_NoDirectoryAfterClose ==
    (lastOp.op = "Close" /\ lastOp.err = "nil") => dirs = {}

\* C19 (as claimed): after a successful Clone the Repo holds a repository
\* and its filesystem is rooted at the newest temporary directory, which
\* exists; a Close that follows returns no error and the directory is gone.
C19_CloneThenClose ==
    /\ (lastOp.op = "Clone" /\ lastOp.err = "nil") =>
           /\ rRepo = "repository"
           /\ rFilesystem = made
           /\ rFilesystem \in dirs
    /\ (lastOp.op = "Close" /\ lastOp.prevOp = "Clone" /\ lastOp.prevErr = "nil") =>
           /\ lastOp.err = "nil"
           /\ rFilesystem \notin dirs

\* C19 (amended): as C19, but a Close whose removal fails returns the
\* clean-up error and the directory still exists.
C19_CloneThenCloseUnlessRemovalFails ==
    /\ (lastOp.op = "Clone" /\ lastOp.err = "nil") =>
           /\ rRepo = "repository"
           /\ rFilesystem = made
           /\ rFilesystem \in dirs
    /\ (lastOp.op = "Close" /\ lastOp.prevOp = "Clone" /\ lastOp.prevErr = "nil") =>
           \/ (lastOp.err = "nil" /\ rFilesystem \notin dirs)
           \/ (lastOp.err = ErrCleanup /\ lastOp.step = "RemoveAll"
               /\ rFilesystem \in dirs)

\* C19 witness: Close returned no error right after a successful Clone and
\* the directory of the Repo's filesystem is gone.
C19_Witness ==
    /\ lastOp.op = "Close"
    /\ lastOp.prevOp = "Clone"
    /\ lastOp.prevErr = "nil"
    /\ lastOp.err = "nil"
    /\ rFilesystem # 0
    /\ rFilesystem \notin dirs
    /\ rRepo = "repository"

\* C20 (as claimed): a Clone whose clone capability failed returned an
\* error, called the capability once, and the Repo holds no repository.
C20_CloneFailureHoldsNoRepo ==
    (lastOp.op = "Clone" /\ lastOp.step = "Clone") =>
        /\ lastOp.err # "nil"
        /\ lastOp.calls = 1
        /\ rRepo = "nil"

\* C20 (amended): a Clone whose clone capability failed returned the clone
\* error and called the capability once; the Repo holds what the capability
\* returned beside its error, no repository when that is nil.
C20_CloneFailureHoldsWhatWasReturned ==
    (lastOp.op = "Clone" /\ lastOp.step = "Clone") =>
        /\ lastOp.err = CloneError("Clone")
        /\ lastOp.err # "nil"
        /\ lastOp.calls = 1
        /\ rRepo = lastOp.ret
        /\ (lastOp.ret = "nil" => rRepo = "nil")

\* C20 witness: a second Clone failed in the clone capability, which
\* returned nil: the repository of the first Clone is no longer held.
C20_Witness ==
    /\ lastOp.op = "Clone"
    /\ lastOp.step = "Clone"
    /\ lastOp.prevOp = "Clone"
    /\ lastOp.prevErr = "nil"
    /\ lastOp.ret = "nil"
    /\ rRepo = "nil"
    /\ cloneCalls = 2

\* number of slashes among the first i characters of s
RECURSIVE Slashes(_, _)
Slashes(s, i) == IF i = 0 THEN 0 ELSE Slashes(s, i - 1) + (IF s[i] = "/" THEN 1 ELSE 0)

\* s is <non-empty owner>/<non-empty repo> with a single slash
WellFormedName(s) ==
    /\ Slashes(s, Len(s)) = 1
    /\ s[1] # "/"
    /\ s[Len(s)] # "/"

\* C21 (as claimed): for a name that is not <owner>/<repo>, makeGithubPR
\* returns an error, no instance, and creates no temporary directory; for a
\* well-formed name it returns an instance with a filesystem and a client.
C21_InstanceIffWellFormed ==
    mkResult.called =>
        IF WellFormedName(repoName)
        THEN /\ mkResult.err = "nil"
             /\ ~mkResult.g.nil
             /\ mkResult.g.filesystem # 0
             /\ mkResult.g.gitHubClient
        ELSE /\ mkResult.err = ErrInvalidName
             /\ mkResult.g.nil
             /\ mkDirs = 0

\* C21 (amended): as C21 for the names that are not well formed; for a
\* well-formed name makeGithubPR returns either an instance with a
\* filesystem, a client and the owner and repo of the name, or, when the
\* temporary directory cannot be created or entered, an error and no
\* instance.
C21_InstanceIffWellFormedAndDirMade ==
    mkResult.called =>
        IF WellFormedName(repoName)
        THEN \/ /\ mkResult.err = "nil"
                /\ ~mkResult.g.nil
                /\ mkResult.g.filesystem # 0
                /\ mkResult.g.gitHubClient
                /\ mkResult.g.owner \o <<"/">> \o mkResult.g.repo = repoName
                /\ mkDirs = 1
             \/ /\ mkResult.err \in {"tempdir error", "chroot error"}
                /\ mkResult.g.nil
        ELSE /\ mkResult.err = ErrInvalidName
             /\ mkResult.g.nil
             /\ mkDirs = 0

\* C21 witness: a name with two slashes was refused without a temporary
\* directory.
C21_Witness ==
    /\ mkResult.called
    /\ repoName = <<"a", "/", "b", "/">>
    /\ mkResult.err = ErrInvalidName
    /\ mkResult.g.nil
    /\ mkDirs = 0

\* C22 (as claimed): when Push has returned no error, the commit it made is
\* on the remote's branch named Change.Branch, the remote gained exactly
\* that one commit, and an origin that was empty before the first Push holds
\* exactly two commits (the cloned HEAD and the new one).
C22_PushAddsOneCommitOnBranch ==
    (chLast.op = "Push" /\ chLast.err = "nil") =>
        /\ chLast.made # 0
        /\ rRefs[cBranch] = chLast.made
        /\ (chLast.before # {} => rCommits = chLast.before \cup {chLast.made})
        /\ (chLast.before = {} /\ pushCalls = 1) => Cardinality(rCommits) = 2

\* C23: PR.URL returns an error exactly when Number is 0, which is exactly
\* when no Create has succeeded; a URL call makes no call on the GitHub
\* client.
C23_URLErrorIffNoNumber ==
    /\ [](/\ (prNumber = 0) <=> (prSha = "")
          /\ prLast.op = "URL" =>
                 /\ prUrl.called
                 /\ prUrl.err = prLast.err
                 /\ (prUrl.err # "nil") <=> (prNumber = 0)
                 /\ (prUrl.err = "nil") => (prUrl.url # ""))
    /\ [][(prOps' # prOps /\ prLast'.op = "URL") => prApiCalls' = prApiCalls]_vars

\* C23 witness: after one successful Create, URL returned a URL and the only
\* call made on the client is that of Create.
C23_Witness ==
    /\ prLast = [op |-> "URL", err |-> "nil"]
    /\ prNumber = 12
    /\ prUrl.err = "nil"
    /\ prUrl.url # ""
    /\ prApiCalls = 1
    /\ prOps = 2

C25_CancelObservedOnlyAtSleep ==
    [][/\ (pc = "fetch" /\ pc' # "fetch") =>
              /\ (fetchErr' => fetchCause' # "context")
              /\ (~fetchErr' => Len(hist') = Len(hist) + 1)
              /\ (pc' = "done" => result' # ErrTimedOut)
       /\ (pc # "done" /\ pc' = "done" /\ result' = ErrTimedOut) =>
              (pc = "sleep" /\ cancelled)]_vars

\* the errors and the nil a wait can return
Outcomes ==
    {Nil, ErrTimedOut, ErrFetch, ErrUnknownType, ErrUnsupportedType}
        \cup {ErrCheckFailed(n) : n \in Names}

\* C26: every wait returns at some moment; what it returns is one of
\* success, a check-failed or other terminal error, or the timed-out error;
\* it does not return from a tick that evaluated to pending; once returned
\* the result does not change.
C26_WaitReturnsResolved ==
    /\ <>(pc = "done")
    /\ [](pc = "done" =>
              /\ result \in Outcomes
              /\ (doneFrom = "fetch" => outcome \in {"success", "failed", "fetcherr"})
              /\ (doneFrom = "sleep" => (result = ErrTimedOut /\ outcome = "pending"))
              /\ (result = Nil => outcome = "success"))
    /\ [][pc = "done" => (pc' = "done" /\ result' = result)]_vars

\* C26 witness: after three pending ticks the timer had fired and the
\* context was cancelled; the select took the cancellation and the wait
\* returned the timed-out error.
C26_Witness ==
    /\ pc = "done"
    /\ doneFrom = "sleep"
    /\ timer
    /\ cancelled
    /\ result = ErrTimedOut
    /\ hist = <<"pending", "pending", "pending">>

\* C27: the result of a tick is evaluate applied to the required status
\* checks and the list fetched on that tick, and to nothing else: whatever
\* the earlier ticks, the attempt counter and the interval of the backoff,
\* the tick is failed with the check evaluate names, successful, or pending
\* exactly as evaluate says for these two arguments.
C27_TickIsFunctionOfInputs ==
    [][(pc = "fetch" /\ pc' # "fetch" /\ ~fetchErr') =>
           LET e == evaluate(targetStatuses, statuses') IN
           /\ hist' = Append(hist, e.kind)
           /\ (e.kind = "failed" => (pc' = "done" /\ result' = ErrCheckFailed(e.name)))
           /\ (e.kind = "success" => (pc' = "done" /\ result' = Nil))
           /\ (e.kind = "pending" => (pc' = "sleep" /\ result' = result))]_vars

\* C27 witness: the third tick of a wait, after two sleeps, fetched a list
\* in which the first required check has failed.
C27_Witness ==
    /\ pc = "done"
    /\ hist = <<"pending", "pending", "failed">>
    /\ attempt = 2
    /\ result = ErrCheckFailed("A")
    /\ statuses = <<[Context |-> "A", State |-> "error"]>>

\* C28: the first fetch of a wait is made with no sleep before it; every
\* fetch is made after exactly as many sleeps (calls of b.Duration()) as
\* fetches were made before it, every sleep follows a fetch and has a
\* positive interval; a wait that ends from a fetch (success, failed check,
\* fetch error) has slept once less than it has fetched.
C28_OneSleepBetweenFetches ==
    /\ [](/\ (pc = "start" => (fetches = 0 /\ sleeps = 0))
          /\ (pc = "fetch" => sleeps = fetches)
          /\ (pc = "sleep" => (sleeps = fetches /\ fetches >= 1 /\ interval.dur >= 1))
          /\ ((pc = "done" /\ doneFrom = "fetch") => sleeps = fetches - 1)
          /\ ((pc = "done" /\ doneFrom = "sleep") => sleeps = fetches))
    /\ [][/\ ((fetches' # fetches) =>
                  (pc = "fetch" /\ fetches' = fetches + 1 /\ sleeps = fetches))
          /\ ((sleeps' # sleeps) =>
                  (sleeps' = sleeps + 1 /\ fetches' = fetches + 1 /\ pc' = "sleep"))]_vars

\* C28 witness: the third fetch of a wait is about to be made, after two
\* fetches and two sleeps.
C28_Witness ==
    /\ pc = "fetch"
    /\ ~cancelled
    /\ fetches = 2
    /\ sleeps = 2
    /\ hist = <<"pending", "pending">>

\* C29 (as claimed): once waitForStatusWithTimeout has returned the
\* timed-out error, its goroutine makes no further status fetch.
C29_NoFetchAfterTimeout ==
    (wpc = "returned" /\ wResult = ErrWaitTimedOut) => bgFetches = wFetches

\* C30 (as claimed): when PR.waitForStatus returns on a fetched list whose
\* deciding entry of the target context is failure or error, it returns a
\* non-nil error.
C30_FailedStatusReturnsError ==
    (/\ spc = "returned"
     /\ sFrom = "fetch"
     /\ decide(WaitStatusContext, sStatuses) = "failed") => sResult # "nil"

\* C31: a failing PR.Create leaves Number and PRSha as they were and a
\* failing PR.Merge leaves MergedSha as it was; a successful Create sets
\* Number and PRSha, and a successful Merge sets MergedSha, to what GitHub
\* answered.
C31_FailedCallLeavesPR ==
    [][(prOps' # prOps) =>
        /\ (prLast'.op = "Create" /\ prLast'.err # "nil") =>
               (prNumber' = prNumber /\ prSha' = prSha /\ prMergedSha' = prMergedSha)
        /\ (prLast'.op = "Create" /\ prLast'.err = "nil") =>
               (prNumber' = prAnswer'.number /\ prSha' = prAnswer'.sha)
        /\ (prLast'.op = "Merge" /\ prLast'.err # "nil") =>
               (prMergedSha' = prMergedSha /\ prNumber' = prNumber /\ prSha' = prSha)
        /\ (prLast'.op = "Merge" /\ prLast'.err = "nil") =>
               prMergedSha' = prAnswer'.sha]_vars

\* a Create failed on a PR that an earlier Create had set, and a Merge had
\* set its MergedSha
C31_Witness ==
    /\ prLast = [op |-> "Create", err |-> ErrCreatePR]
    /\ prNumber = 12
    /\ prSha = "sha2"
    /\ prMergedSha = "sha1"

\* C32: waitForChecks called with no required check returns from its first
\* fetch, without sleeping: with success if the fetch succeeded, whatever
\* the list holds, and with the fetch error if it failed.
C32_NoChecksOneFetch ==
    (checks = <<>>) =>
        /\ sleeps = 0
        /\ fetches <= 1
        /\ pc \in {"start", "fetch", "done"}
        /\ (fetches = 1) =>
               /\ pc = "done"
               /\ doneFrom = "fetch"
               /\ result = IF fetchErr THEN ErrFetch ELSE Nil
        /\ (pc = "done") => (fetches = 1)

\* the wait without checks returned success on a list holding a failure
C32_Witness ==
    /\ checks = <<>>
    /\ pc = "done"
    /\ result = Nil
    /\ fetches = 1
    /\ \E i \in 1..Len(statuses) : statuses[i].State = "failure"

\* C33: a required check of unknown type makes the wait return the
\* unknown-check-type error before any fetch or sleep, also when the list
\* holds an action check, before or after it.
C33_UnknownTypeFirst ==
    (HasUnknown /\ pc # "start") =>
        /\ pc = "done"
        /\ doneFrom = "start"
        /\ result = ErrUnknownType
        /\ fetches = 0
        /\ sleeps = 0
        /\ hist = <<>>

\* the wait returned the unknown-type error for an action check followed by
\* a check of unknown type
C33_Witness ==
    /\ Len(checks) = 2
    /\ checks[1].CheckType = "action"
    /\ checks[2].CheckType = "other"
    /\ pc = "done"
    /\ result = ErrUnknownType

\* C34 (as claimed): Repo.Close on a Repo that holds no temporary filesystem
\* (Clone never called, or failed before the filesystem was set) returns nil
\* or an error value; it does not panic.
C34_CloseWithoutFilesystemReturns ==
    (lastOp.op = "Close" /\ rFilesystem = 0) => lastOp.err # "panic"

\* the errors Push returns before its commit
BeforeCommitErrors ==
    {PushError(step) : step \in {"Head", "SetReference", "Worktree", "updateFunc"}}

\* C35: Push stops at its first failing step.  A failure of Head,
\* SetReference, Worktree or the update function leaves no commit and no
\* push; a failure of Commit or of the remote SetReference leaves no push;
\* a call pushes at most once, and a call that did not push leaves the
\* remote as it was.
C35_PushStopsAtFirstFailure ==
    (chLast.op = "Push") =>
        /\ chLast.err \in BeforeCommitErrors =>
               (chLast.made = 0 /\ chLast.pushes = 0)
        /\ chLast.err = PushError("Commit") =>
               (chLast.made = 0 /\ chLast.pushes = 0)
        /\ chLast.err = PushError("SetRemoteReference") => chLast.pushes = 0
        /\ chLast.pushes <= 1
        /\ chLast.pushes = 0 => rCommits = chLast.before
        /\ chLast.err = "nil" => chLast.pushes = 1

\* a Push whose commit failed after the update function ran
C35_Witness ==
    /\ chLast.op = "Push"
    /\ chLast.err = PushError("Commit")
    /\ chLast.updates = 1
    /\ chLast.pushes = 0

\* C36 (as claimed): when checking out the new branch fails, Push returns an
\* error without calling the update function, committing or pushing, and a
\* commit is never made on a branch other than Change.Branch.
C36_CommitOnlyOnNewBranch ==
    (chLast.op = "Push") =>
        /\ chLast.checkout = "failed" =>
               /\ chLast.err # "nil"
               /\ chLast.updates = 0
               /\ chLast.made = 0
               /\ chLast.pushes = 0
        /\ chLast.made # 0 => chLast.on = cBranch

====
